---- MODULE Spec2Model ----
(***************************************************************************)
(* Verification model of the EcoLink e-waste application:                  *)
(*   - the stored procedures create_waste_detection_atomic and             *)
(*     redeem_reward_atomic running as concurrent READ COMMITTED           *)
(*     transactions over profiles / waste_detections / reward_redemptions  *)
(*     / audit_logs (specification Spec);                                  *)
(*   - the react-query mutation hooks with their optimistic updates        *)
(*     (SpecCache), the retry helper and the hooks that use it (SpecRetry),*)
(*     the client rate limiter (SpecLimiter), handleError (SpecErr) and    *)
(*     the assistant page (SpecAssistant).                                 *)
(***************************************************************************)
EXTENDS Integers, Sequences, FiniteSets, TLC

(***************************************************************************)
(* Bounds of the model                                                     *)
(***************************************************************************)
MaxTxn == 3

(***************************************************************************)
(* Database: values                                                        *)
(***************************************************************************)
AuthUsers == {"A", "B"}
UserIds == AuthUsers \cup {"Z"}
NoProfile == [exists |-> FALSE]
InitCoins == {0, 3}
RewardIds == {"R1", "R2", "R3"}
rewards == [r \in {"R1", "R2"} |-> [active |-> (r = "R1"), coins_required |-> 3]]
CoinsSpentArgs == {-1, 2}
CoinsEarnedArgs == {-1, 2}
Co2Args == {-9000, 1235}
None == "none"
NoTxn == 0
TxnIds == 1..MaxTxn

VARIABLES profiles, waste_detections, reward_redemptions, audit_logs,
          rowLock, txn, nextTxn, initial

dbVars == <<profiles, waste_detections, reward_redemptions, audit_logs,
            rowLock, txn, nextTxn, initial>>

(***************************************************************************)
(* Database: helpers                                                       *)
(***************************************************************************)
RECURSIVE SumCoins(_)
SumCoins(rows) ==
  IF rows = {} THEN 0
  ELSE LET x == CHOOSE y \in rows : TRUE IN x.coins + SumCoins(rows \ {x})

Abs(x) == IF x < 0 THEN -x ELSE x

\* NUMERIC -> DECIMAL(10,2): values are kept in thousandths of a kg, a
\* column value is rounded half away from zero to a multiple of 10.
NumericRound2(x) ==
  LET a == Abs(x)
      r == ((a + 5) \div 10) * 10
  IN IF x < 0 THEN -r ELSE r

check_eco_coins_positive(p) == p.eco_coins >= 0
check_total_items_positive(p) == p.total_items_recycled >= 0
check_co2_positive(p) == p.total_co2_saved >= 0
ProfileChecks(p) ==
  check_eco_coins_positive(p) /\ check_total_items_positive(p) /\ check_co2_positive(p)
check_eco_coins_earned_positive(earned) == earned >= 0

IdleTxn == [kind |-> None, pc |-> "idle", p_user_id |-> None, p_reward_id |-> None,
            p_coins |-> 0, p_co2 |-> 0, v_current_coins |-> 0,
            w_profile |-> NoProfile, error |-> None]

ProfileRow(c) == [exists |-> TRUE, eco_coins |-> c, total_items_recycled |-> 0,
                  total_co2_saved |-> 0]

DBInit ==
  /\ profiles \in {[u \in AuthUsers |-> IF u = "A" THEN ProfileRow(c) ELSE b] :
                     c \in InitCoins, b \in {NoProfile, ProfileRow(3)}}
  /\ initial = profiles
  /\ waste_detections = {}
  /\ reward_redemptions = {}
  /\ audit_logs = {}
  /\ rowLock = [u \in AuthUsers |-> NoTxn]
  /\ txn = [t \in TxnIds |-> IdleTxn]
  /\ nextTxn = 1

\* a finished call keeps only its kind, its outcome and its error message
Finished(kind, pc, msg) == [IdleTxn EXCEPT !.kind = kind, !.pc = pc, !.error = msg]

HasProfile(u) == u \in AuthUsers /\ profiles[u].exists

\* fault: the failed call is recorded in audit_logs
RollbackLogged(t, msg) ==
  /\ txn' = [txn EXCEPT ![t] = Finished(txn[t].kind, "failed", msg)]
  /\ rowLock' = [u \in AuthUsers |-> IF rowLock[u] = t THEN NoTxn ELSE rowLock[u]]
  /\ audit_logs' = audit_logs \cup
       {[user_id |-> txn[t].p_user_id,
         action |-> IF txn[t].kind = "redeem" THEN "REDEEM_REWARD"
                                              ELSE "CREATE_WASTE_DETECTION",
         table_name |-> "failed", record_id |-> t, coins |-> txn[t].p_coins,
         balance_after |-> 0]}
  /\ UNCHANGED <<profiles, waste_detections, reward_redemptions>>

\* RAISE EXCEPTION / constraint violation: the transaction rolls back, its
\* pending writes are dropped and its row locks released.
Rollback(t, msg) ==
  /\ txn' = [txn EXCEPT ![t] = Finished(txn[t].kind, "failed", msg)]
  /\ rowLock' = [u \in AuthUsers |-> IF rowLock[u] = t THEN NoTxn ELSE rowLock[u]]
  /\ UNCHANGED <<profiles, waste_detections, reward_redemptions, audit_logs>>

\* fault: SELECT without FOR UPDATE, nobody waits for the row
RowLockIgnored(u, t) == TRUE

RowLockFree(u, t) == rowLock[u] \in {NoTxn, t}

(***************************************************************************)
(* redeem_reward_atomic                                                    *)
(***************************************************************************)
\* the call starts a transaction and runs SELECT active FROM rewards
RedeemSelectReward(t, u, r, c) ==
  /\ t = nextTxn
  /\ txn[t].pc = "idle"
  /\ nextTxn' = nextTxn + 1
  /\ LET started == [IdleTxn EXCEPT !.kind = "redeem", !.p_user_id = u,
                                    !.p_reward_id = r, !.p_coins = c]
     IN txn' = [txn EXCEPT ![t] =
          IF r \notin DOMAIN rewards
            THEN Finished("redeem", "failed", "Reward not found")
          ELSE IF ~rewards[r].active
            THEN Finished("redeem", "failed", "Reward is not active")
          ELSE [started EXCEPT !.pc = "r_lock"]]
  /\ UNCHANGED <<profiles, waste_detections, reward_redemptions, audit_logs,
                 rowLock, initial>>

\* SELECT eco_coins ... FOR UPDATE
RedeemSelectForUpdate(t) ==
  /\ txn[t].pc = "r_lock"
  /\ LET u == txn[t].p_user_id IN
     IF ~HasProfile(u)
       THEN Rollback(t, "Profile not found")
       ELSE /\ RowLockFree(u, t)
            /\ rowLock' = [rowLock EXCEPT ![u] = t]
            /\ txn' = [txn EXCEPT ![t] = [@ EXCEPT !.pc = "r_check",
                                  !.v_current_coins = profiles[u].eco_coins]]
            /\ UNCHANGED <<profiles, waste_detections, reward_redemptions, audit_logs>>
  /\ UNCHANGED <<nextTxn, initial>>

InsufficientBalance(current, spent) == current < spent

\* fault: the UPDATE that deducts the coins is missing
DeductNothing(coins, spent) == coins

Deduct(coins, spent) == coins - spent

\* fault: the coins are deducted without the balance test, on a profiles
\* table that lacks check_eco_coins_positive
RedeemUnchecked(t) ==
  /\ txn[t].pc = "r_check"
  /\ LET u == txn[t].p_user_id
         newp == [profiles[u] EXCEPT !.eco_coins = @ - txn[t].p_coins]
     IN /\ txn' = [txn EXCEPT ![t] = [@ EXCEPT !.pc = "r_commit", !.w_profile = newp]]
        /\ UNCHANGED <<profiles, waste_detections, reward_redemptions,
                       audit_logs, rowLock>>
  /\ UNCHANGED <<nextTxn, initial>>

\* IF v_current_coins < p_coins_spent THEN RAISE EXCEPTION; otherwise
\* INSERT reward_redemptions; UPDATE profiles; INSERT audit_logs (all pending
\* until the commit; the UPDATE recomputes from the current row)
RedeemCheckBalance(t) ==
  /\ txn[t].pc = "r_check"
  /\ LET u == txn[t].p_user_id
         newp == [profiles[u] EXCEPT !.eco_coins = Deduct(@, txn[t].p_coins)]
     IN IF InsufficientBalance(txn[t].v_current_coins, txn[t].p_coins)
          THEN Rollback(t, "Insufficient EcoCoins")
        ELSE IF ~ProfileChecks(newp)
          THEN Rollback(t, "check constraint")
        ELSE /\ txn' = [txn EXCEPT ![t] = [@ EXCEPT !.pc = "r_commit",
                                                    !.w_profile = newp]]
             /\ UNCHANGED <<profiles, waste_detections, reward_redemptions,
                            audit_logs, rowLock>>
  /\ UNCHANGED <<nextTxn, initial>>

RedemptionRow(t) == [id |-> t, user_id |-> txn[t].p_user_id,
                     reward_id |-> txn[t].p_reward_id, coins |-> txn[t].p_coins]
RedeemAuditRow(t) == [user_id |-> txn[t].p_user_id, action |-> "REDEEM_REWARD",
                      table_name |-> "reward_redemptions", record_id |-> t,
                      coins |-> txn[t].p_coins,
                      balance_after |-> txn[t].v_current_coins - txn[t].p_coins]

\* RETURN v_redemption_id: the transaction commits
RedeemCommit(t) ==
  /\ txn[t].pc = "r_commit"
  /\ LET u == txn[t].p_user_id IN
     /\ reward_redemptions' = reward_redemptions \cup {RedemptionRow(t)}
     /\ profiles' = [profiles EXCEPT ![u] = txn[t].w_profile]
     /\ audit_logs' = audit_logs \cup {RedeemAuditRow(t)}
     /\ rowLock' = [v \in AuthUsers |-> IF rowLock[v] = t THEN NoTxn ELSE rowLock[v]]
  /\ txn' = [txn EXCEPT ![t] = Finished("redeem", "ok", None)]
  /\ UNCHANGED <<waste_detections, nextTxn, initial>>

(***************************************************************************)
(* create_waste_detection_atomic                                           *)
(***************************************************************************)
\* the call starts a transaction, validates the user and runs
\* INSERT INTO waste_detections (pending; CHECK eco_coins_earned >= 0)
DetectInsert(t, u, c, co2) ==
  /\ t = nextTxn
  /\ txn[t].pc = "idle"
  /\ nextTxn' = nextTxn + 1
  /\ LET started == [IdleTxn EXCEPT !.kind = "detect", !.p_user_id = u,
                                    !.p_coins = c, !.p_co2 = co2]
     IN txn' = [txn EXCEPT ![t] =
          IF u \notin AuthUsers
            THEN Finished("detect", "failed", "User not found")
          ELSE IF ~check_eco_coins_earned_positive(c)
            THEN Finished("detect", "failed", "check constraint")
          ELSE [started EXCEPT !.pc = "d_update"]]
  /\ UNCHANGED <<profiles, waste_detections, reward_redemptions, audit_logs,
                 rowLock, initial>>

Award(p, earned, co2) ==
  [p EXCEPT !.eco_coins = @ + earned,
            !.total_items_recycled = @ + 1,
            !.total_co2_saved = NumericRound2(@ + co2)]

\* UPDATE profiles SET ... WHERE user_id = p_user_id (locks the row it finds;
\* updates nothing when the user has no profile row)
DetectUpdateProfile(t) ==
  /\ txn[t].pc = "d_update"
  /\ LET u == txn[t].p_user_id IN
     IF ~HasProfile(u)
       THEN /\ txn' = [txn EXCEPT ![t] = [@ EXCEPT !.pc = "d_commit"]]
            /\ UNCHANGED <<profiles, waste_detections, reward_redemptions,
                           audit_logs, rowLock>>
       ELSE LET newp == Award(profiles[u], txn[t].p_coins, txn[t].p_co2) IN
            /\ RowLockFree(u, t)
            /\ IF ~ProfileChecks(newp)
                 THEN Rollback(t, "check constraint")
                 ELSE /\ rowLock' = [rowLock EXCEPT ![u] = t]
                      /\ txn' = [txn EXCEPT ![t] = [@ EXCEPT !.pc = "d_commit",
                                                             !.w_profile = newp]]
                      /\ UNCHANGED <<profiles, waste_detections,
                                     reward_redemptions, audit_logs>>
  /\ UNCHANGED <<nextTxn, initial>>

DetectionRow(t) == [id |-> t, user_id |-> txn[t].p_user_id, coins |-> txn[t].p_coins]
DetectAuditRow(t) == [user_id |-> txn[t].p_user_id, action |-> "CREATE_WASTE_DETECTION",
                      table_name |-> "waste_detections", record_id |-> t,
                      coins |-> txn[t].p_coins, balance_after |-> 0]

\* INSERT INTO audit_logs; RETURN v_detection_id: the transaction commits
DetectCommit(t) ==
  /\ txn[t].pc = "d_commit"
  /\ LET u == txn[t].p_user_id IN
     /\ waste_detections' = waste_detections \cup {DetectionRow(t)}
     /\ profiles' = IF txn[t].w_profile.exists
                      THEN [profiles EXCEPT ![u] = txn[t].w_profile]
                      ELSE profiles
     /\ audit_logs' = audit_logs \cup {DetectAuditRow(t)}
     /\ rowLock' = [v \in AuthUsers |-> IF rowLock[v] = t THEN NoTxn ELSE rowLock[v]]
  /\ txn' = [txn EXCEPT ![t] = Finished("detect", "ok", None)]
  /\ UNCHANGED <<reward_redemptions, nextTxn, initial>>

DBNext ==
  \/ \E t \in TxnIds, u \in UserIds, r \in RewardIds, c \in CoinsSpentArgs :
       RedeemSelectReward(t, u, r, c)
  \/ \E t \in TxnIds : RedeemSelectForUpdate(t)
  \/ \E t \in TxnIds : RedeemCheckBalance(t)
  \/ \E t \in TxnIds : RedeemCommit(t)
  \/ \E t \in TxnIds, u \in UserIds, c \in CoinsEarnedArgs, co2 \in Co2Args :
       DetectInsert(t, u, c, co2)
  \/ \E t \in TxnIds : DetectUpdateProfile(t)
  \/ \E t \in TxnIds : DetectCommit(t)

(***************************************************************************)
(* Database: properties                                                    *)
(***************************************************************************)
RowsOf(table, u) == {x \in table : x.user_id = u}
RedeemCalls == {t \in TxnIds : txn[t].kind = "redeem"}
DetectCalls == {t \in TxnIds : txn[t].kind = "detect"}
InCriticalSection(t) == txn[t].pc \in {"r_check", "r_commit"}

\* C1: in every reachable state every profile's eco_coins is >= 0, whatever
\* create_waste_detection_atomic and redeem_reward_atomic calls ran or are
\* running.
C1_NonNegativeCoins ==
  \A u \in AuthUsers : profiles[u].exists => profiles[u].eco_coins >= 0

C1_Witness ==
  \E u \in AuthUsers :
    /\ profiles[u].exists /\ profiles[u].eco_coins = 0
    /\ RowsOf(reward_redemptions, u) # {}
    /\ RowsOf(waste_detections, u) # {}

\* C2: concurrent redeem_reward_atomic calls of one user are serialised by the
\* row lock: at most one of them is between its SELECT ... FOR UPDATE and its
\* commit, and the coins spent by the committed redemptions never exceed the
\* coins that were available (initial balance plus awarded coins).
C2_RedeemSerialised ==
  /\ \A t1, t2 \in RedeemCalls :
       (t1 # t2 /\ InCriticalSection(t1) /\ InCriticalSection(t2))
         => txn[t1].p_user_id # txn[t2].p_user_id
  /\ \A u \in AuthUsers : profiles[u].exists =>
       SumCoins(RowsOf(reward_redemptions, u))
         <= initial[u].eco_coins + SumCoins(RowsOf(waste_detections, u))

C2_Witness ==
  \E t1, t2 \in RedeemCalls :
    /\ txn[t1].pc = "r_commit" /\ txn[t2].pc = "r_lock"
    /\ txn[t1].p_user_id = txn[t2].p_user_id
    /\ txn[t1].p_coins > 0 /\ txn[t2].p_coins > 0
    /\ txn[t1].v_current_coins < txn[t1].p_coins + txn[t2].p_coins

\* C3: a redeem_reward_atomic call that raises an exception leaves no
\* reward_redemptions row and no audit_logs row, and the step that raises
\* changes no eco_coins balance.
C3_FailedRedeemNoEffect ==
  /\ [](\A t \in RedeemCalls : txn[t].pc = "failed" =>
          /\ \A x \in reward_redemptions : x.id # t
          /\ \A x \in audit_logs : ~(x.action = "REDEEM_REWARD" /\ x.record_id = t))
  /\ [][\A t \in TxnIds :
          (txn[t].pc # "failed" /\ txn'[t].pc = "failed" /\ txn'[t].kind = "redeem")
            => /\ profiles' = profiles
               /\ reward_redemptions' = reward_redemptions
               /\ audit_logs' = audit_logs]_dbVars

C3_Witness ==
  /\ \E t \in RedeemCalls : txn[t].pc = "failed" /\ txn[t].error = "Insufficient EcoCoins"
  /\ \E t \in RedeemCalls : txn[t].pc = "failed" /\ txn[t].error = "Profile not found"
  /\ \E t \in RedeemCalls : txn[t].pc = "failed"
        /\ txn[t].error \in {"Reward not found", "Reward is not active"}

\* C4: a redemption is all or nothing: a committed redeem_reward_atomic call
\* has exactly one reward_redemptions row, exactly one REDEEM_REWARD audit row
\* carrying the same amount, and its amount deducted once from the balance;
\* any other call has none of the three.
RedemptionRowsOf(t) == {x \in reward_redemptions : x.id = t}
RedeemAuditRowsOf(t) ==
  {x \in audit_logs : x.action = "REDEEM_REWARD" /\ x.record_id = t}

C4_RedeemAllOrNothing ==
  /\ \A t \in TxnIds :
       IF txn[t].kind = "redeem" /\ txn[t].pc = "ok"
         THEN /\ Cardinality(RedemptionRowsOf(t)) = 1
              /\ Cardinality(RedeemAuditRowsOf(t)) = 1
              /\ \A x \in RedemptionRowsOf(t), y \in RedeemAuditRowsOf(t) :
                   x.coins = y.coins /\ x.user_id = y.user_id
         ELSE RedemptionRowsOf(t) = {} /\ RedeemAuditRowsOf(t) = {}
  /\ \A u \in AuthUsers : profiles[u].exists =>
       profiles[u].eco_coins =
         initial[u].eco_coins + SumCoins(RowsOf(waste_detections, u))
                              - SumCoins(RowsOf(reward_redemptions, u))

C4_Witness ==
  \E t \in RedeemCalls : txn[t].pc = "ok" /\ RedemptionRowsOf(t) # {}

\* C5: whenever create_waste_detection_atomic records a waste_detections row
\* for a user, that user's profile gains exactly p_eco_coins_earned eco_coins,
\* 1 total_items_recycled and p_co2_saved_kg total_co2_saved in that commit.
C5_DetectionAwards ==
  [][\A t \in TxnIds :
       (txn[t].pc = "d_commit" /\ txn'[t].pc = "ok") =>
         LET u == txn[t].p_user_id IN
           /\ profiles[u].exists
           /\ profiles'[u].eco_coins = profiles[u].eco_coins + txn[t].p_coins
           /\ profiles'[u].total_items_recycled = profiles[u].total_items_recycled + 1
           /\ profiles'[u].total_co2_saved = profiles[u].total_co2_saved + txn[t].p_co2]_dbVars

\* auth.uid(): the procedures are SECURITY DEFINER, executable by every
\* authenticated user, and never read it; every call of a behaviour is issued
\* from the session of this user.
auth_uid == "A"

\* C14: a call issued by the authenticated user changes only that user's rows:
\* the profile, detections and redemptions of every other user are left as
\* they were, whatever p_user_id is passed.
C14_OnlyOwnRows ==
  [][\A b \in AuthUsers \ {auth_uid} :
       /\ profiles'[b] = profiles[b]
       /\ RowsOf(waste_detections', b) = RowsOf(waste_detections, b)
       /\ RowsOf(reward_redemptions', b) = RowsOf(reward_redemptions, b)]_dbVars

\* C15: every reward_redemptions row records at least the coins_required of
\* its reward.
C15_PricePaid ==
  \A x \in reward_redemptions :
    x.coins >= rewards[x.reward_id].coins_required

Quiescent == \A t \in TxnIds : txn[t].pc \in {"idle", "ok", "failed"}

\* C16: once the calls on a user have finished, in whatever order their
\* steps interleaved, the user's eco_coins is the initial balance plus the
\* coins of the recorded detections minus the coins of the recorded
\* redemptions.
C16_NoLostUpdate ==
  Quiescent =>
    \A u \in AuthUsers : profiles[u].exists =>
      profiles[u].eco_coins - initial[u].eco_coins
        = SumCoins(RowsOf(waste_detections, u))
            - SumCoins(RowsOf(reward_redemptions, u))

\* Three calls on user A have finished, a detection and a redemption among
\* the successful ones.
C16_Witness ==
  /\ Quiescent
  /\ nextTxn > MaxTxn
  /\ RowsOf(waste_detections, "A") # {}
  /\ RowsOf(reward_redemptions, "A") # {}
  /\ profiles["A"].exists

(***************************************************************************)
(* Query cache and the mutation hooks with optimistic updates              *)
(***************************************************************************)
MaxMut == 2
MutIds == 1..MaxMut
MaxServerCoins == 4
Undefined == [defined |-> FALSE]
KeyProfile == <<"profile">>
KeyProfileUser == <<"profile", "uid">>
KeyDetections == <<"waste-detections">>
KeyDetectionsPage == <<"waste-detections", "uid", "1", "20">>
QueryKeys == {KeyProfile, KeyProfileUser, KeyDetections, KeyDetectionsPage}
SpendInputs == {1, 2}
EarnInputs == {1}

VARIABLES qcache, fetching, serverProfile, serverDetections, mut

cacheVars == <<qcache, fetching, serverProfile, serverDetections, mut>>

IdleMut == [kind |-> None, phase |-> "idle", coins |-> 0,
            previousProfile |-> Undefined, previousDetections |-> Undefined,
            shownProfile |-> Undefined, shownDetections |-> Undefined]

CacheInit ==
  /\ qcache = [k \in QueryKeys |-> Undefined]
  /\ fetching = [k \in QueryKeys |-> Undefined]
  /\ serverProfile = [defined |-> TRUE, eco_coins |-> 3, total_items_recycled |-> 0]
  /\ serverDetections = [defined |-> TRUE, count |-> 0]
  /\ mut = [m \in MutIds |-> IdleMut]

\* a query filter matches every key it is a prefix of
MatchesFilter(filter, key) ==
  /\ Len(filter) <= Len(key)
  /\ \A i \in 1..Len(filter) : filter[i] = key[i]

\* getQueryData / setQueryData address one query by its exact key
getQueryData(key) == qcache[key]

Truthy(v) == v.defined

\* setQueryData(key, data): an undefined result leaves the cache alone
setQueryData(c, key, data) == IF ~data.defined THEN c ELSE [c EXCEPT ![key] = data]

\* the keys under which useProfile and useWasteDetections store their data
ServedProfile == qcache[KeyProfileUser]
ServedDetections == qcache[KeyDetectionsPage]

ServerData(key) ==
  IF key = KeyProfileUser THEN serverProfile ELSE serverDetections

\* useProfile / useWasteDetections queryFn: the request reads the server row(s)
QueryFetch(key) ==
  /\ key \in {KeyProfileUser, KeyDetectionsPage}
  /\ ~fetching[key].defined
  /\ fetching' = [fetching EXCEPT ![key] = ServerData(key)]
  /\ UNCHANGED <<qcache, serverProfile, serverDetections, mut>>

\* the response arrives and is stored under the query's key
QueryResolve(key) ==
  /\ fetching[key].defined
  /\ qcache' = [qcache EXCEPT ![key] = fetching[key]]
  /\ fetching' = [fetching EXCEPT ![key] = Undefined]
  /\ UNCHANGED <<serverProfile, serverDetections, mut>>

cancelQueries(f, filters) ==
  [k \in QueryKeys |->
     IF \E flt \in filters : MatchesFilter(flt, k) THEN Undefined ELSE f[k]]

\* invalidateQueries: the matching queries are refetched
invalidateQueries(f, filters) ==
  [k \in QueryKeys |->
     IF (\E flt \in filters : MatchesFilter(flt, k))
          /\ k \in {KeyProfileUser, KeyDetectionsPage}
       THEN ServerData(k) ELSE f[k]]

OptimisticProfile(old, kind, coins) ==
  IF ~Truthy(old) THEN old
  ELSE IF kind = "detect"
    THEN [old EXCEPT !.eco_coins = @ + coins, !.total_items_recycled = @ + 1]
    ELSE [old EXCEPT !.eco_coins = @ - coins]

\* useCreateWasteDetection / useRedeemReward: mutate() runs onMutate
OnMutate(m, kind, coins) ==
  /\ mut[m].phase = "idle"
  /\ \A n \in MutIds : n < m => mut[n].phase # "idle"
  /\ fetching' = cancelQueries(fetching,
                   IF kind = "detect" THEN {KeyDetections, KeyProfile} ELSE {KeyProfile})
  /\ qcache' = setQueryData(qcache, KeyProfile,
                            OptimisticProfile(getQueryData(KeyProfile), kind, coins))
  /\ mut' = [mut EXCEPT ![m] =
       [kind |-> kind, phase |-> "pending", coins |-> coins,
        previousProfile |-> getQueryData(KeyProfile),
        previousDetections |-> IF kind = "detect" THEN getQueryData(KeyDetections)
                                                  ELSE Undefined,
        shownProfile |-> ServedProfile,
        shownDetections |-> ServedDetections]]
  /\ UNCHANGED <<serverProfile, serverDetections>>

\* mutationFn: apiService.createWasteDetection / redeemReward resolves
RequestSucceeds(m) ==
  /\ mut[m].phase = "pending"
  /\ IF mut[m].kind = "detect"
       THEN /\ serverProfile.eco_coins + mut[m].coins <= MaxServerCoins
            /\ serverProfile' = [serverProfile EXCEPT
                                   !.eco_coins = @ + mut[m].coins,
                                   !.total_items_recycled = @ + 1]
            /\ serverDetections' = [serverDetections EXCEPT !.count = @ + 1]
       ELSE /\ serverProfile.eco_coins >= mut[m].coins
            /\ serverProfile' = [serverProfile EXCEPT !.eco_coins = @ - mut[m].coins]
            /\ UNCHANGED serverDetections
  /\ mut' = [mut EXCEPT ![m].phase = "resolved"]
  /\ UNCHANGED <<qcache, fetching>>

\* mutationFn rejects (validation, rate limit, authentication or RPC error)
RequestFails(m) ==
  /\ mut[m].phase = "pending"
  /\ mut' = [mut EXCEPT ![m].phase = "rejected"]
  /\ UNCHANGED <<qcache, fetching, serverProfile, serverDetections>>

OnSuccess(m) ==
  /\ mut[m].phase = "resolved"
  /\ fetching' = invalidateQueries(fetching,
                   IF mut[m].kind = "detect" THEN {KeyDetections, KeyProfile}
                                             ELSE {KeyProfile})
  /\ mut' = [mut EXCEPT ![m].phase = "success"]
  /\ UNCHANGED <<qcache, serverProfile, serverDetections>>

\* onError: rollback of the optimistic update from the onMutate context
OnError(m) ==
  /\ mut[m].phase = "rejected"
  /\ LET c1 == IF mut[m].kind = "detect" /\ Truthy(mut[m].previousDetections)
                 THEN setQueryData(qcache, KeyDetections, mut[m].previousDetections)
                 ELSE qcache
         c2 == IF Truthy(mut[m].previousProfile)
                 THEN setQueryData(c1, KeyProfile, mut[m].previousProfile)
                 ELSE c1
     IN qcache' = c2
  /\ mut' = [mut EXCEPT ![m].phase = "error"]
  /\ UNCHANGED <<fetching, serverProfile, serverDetections>>

CacheNext ==
  \/ \E k \in QueryKeys : QueryFetch(k)
  \/ \E k \in QueryKeys : QueryResolve(k)
  \/ \E m \in MutIds, c \in SpendInputs : OnMutate(m, "redeem", c)
  \/ \E m \in MutIds, c \in EarnInputs : OnMutate(m, "detect", c)
  \/ \E m \in MutIds : RequestSucceeds(m)
  \/ \E m \in MutIds : RequestFails(m)
  \/ \E m \in MutIds : OnSuccess(m)
  \/ \E m \in MutIds : OnError(m)

CacheKeyProfileEmpty ==
  ~qcache[KeyProfile].defined /\ ~qcache[KeyDetections].defined

\* C19: when a redemption or detection mutation starts, the profile that
\* useProfile serves from the cache becomes the optimistic value (eco_coins
\* less coins_spent, or plus eco_coins_earned with one more item recycled).
C19_OptimisticShown ==
  [][\A m \in MutIds :
       (mut[m].phase = "idle" /\ mut'[m].phase = "pending"
          /\ Truthy(ServedProfile))
         => ServedProfile'
              = OptimisticProfile(ServedProfile, mut'[m].kind, mut'[m].coins)]_cacheVars

(***************************************************************************)
(* Retry and timeout wrappers (part_007 withRetry, withTimeout) and the    *)
(* hooks that call the backend (part_009).  Time is in milliseconds.       *)
(***************************************************************************)

\* Durations a backend request may take before it settles.
OpDurations == {500, 3000, 8000}

RetryCallers == {"useProfile", "useUpdateProfile"}
DirectCallers == {"useRedeemReward", "useCreateWasteDetection"}
Callers == RetryCallers \cup DirectCallers

\* withRetry(operation, maxRetries, delay) as each caller invokes it; a direct
\* caller invokes the operation once.
maxRetriesOf(c) ==
  CASE c = "useProfile" -> 3
    [] c = "useUpdateProfile" -> 2
    [] OTHER -> 1

delayOf(c) == 1000

NoTimeout == 0

timeoutMsOf(c) ==
  CASE c = "useProfile" -> 10000
    [] c = "useUpdateProfile" -> 15000
    [] OTHER -> NoTimeout

VARIABLES rt

retryVars == <<rt>>

IdleRetry ==
  [caller |-> None, phase |-> "idle", attempt |-> 0, invocations |-> 0,
   delays |-> <<>>, elapsed |-> 0, lastError |-> 0, lastFailed |-> FALSE,
   surfaced |-> "none", code |-> None]

RetryInit == rt = IdleRetry

RECURSIVE Pow2(_)
Pow2(n) == IF n = 0 THEN 1 ELSE 2 * Pow2(n - 1)

\* delay * Math.pow(2, attempt - 1)
Backoff(c, attempt) == delayOf(c) * Pow2(attempt - 1)

\* The withTimeout timer is armed and would fire before time e.
TimeoutDue(e) ==
  /\ timeoutMsOf(rt.caller) # NoTimeout
  /\ rt.surfaced = "none"
  /\ e > timeoutMsOf(rt.caller)

\* mutate(): the mutationFn starts.  useUpdateProfile validates its input and
\* throws before any request is made.
Mutate(c, valid) ==
  /\ rt.phase \in {"idle", "done"}
  /\ IF c = "useUpdateProfile" /\ ~valid
       THEN rt' = [IdleRetry EXCEPT !.caller = c, !.phase = "done",
                                    !.surfaced = "failure",
                                    !.code = "VALIDATION"]
       ELSE rt' = [IdleRetry EXCEPT !.caller = c, !.phase = "running",
                                    !.attempt = 1, !.invocations = 1]

\* The toast shown by onSuccess / onError: the first settlement of the
\* promise returned by the mutationFn wins.
Surface(outcome, code) ==
  IF rt.surfaced = "none"
    THEN [surfaced |-> outcome, code |-> code]
    ELSE [surfaced |-> rt.surfaced, code |-> rt.code]

OperationSucceeds(d) ==
  /\ rt.phase = "running"
  /\ ~TimeoutDue(rt.elapsed + d)
  /\ LET s == Surface("success", None) IN
       rt' = [rt EXCEPT !.phase = "done", !.elapsed = @ + d,
                        !.lastFailed = FALSE,
                        !.surfaced = s.surfaced, !.code = s.code]

\* fault: the first failure is thrown, whatever the attempt
LastAttemptAlways(c, attempt) == TRUE

\* if (attempt === maxRetries) throw lastError
LastAttempt(c, attempt) == attempt = maxRetriesOf(c)

OperationFails(d) ==
  /\ rt.phase = "running"
  /\ ~TimeoutDue(rt.elapsed + d)
  /\ IF LastAttempt(rt.caller, rt.attempt)
       THEN LET s == Surface("failure", "REQUEST") IN
              rt' = [rt EXCEPT !.phase = "done", !.elapsed = @ + d,
                               !.lastError = rt.invocations,
                               !.lastFailed = TRUE,
                               !.surfaced = s.surfaced, !.code = s.code]
       ELSE rt' = [rt EXCEPT !.phase = "backoff", !.elapsed = @ + d,
                             !.lastError = rt.invocations,
                             !.lastFailed = TRUE]

\* The backoff timer elapses and the loop invokes the operation again.
BackoffElapses ==
  /\ rt.phase = "backoff"
  /\ ~TimeoutDue(rt.elapsed + Backoff(rt.caller, rt.attempt))
  /\ rt' = [rt EXCEPT !.phase = "running",
                      !.elapsed = @ + Backoff(rt.caller, rt.attempt),
                      !.delays = Append(@, Backoff(rt.caller, rt.attempt)),
                      !.attempt = @ + 1, !.invocations = @ + 1]

\* Promise.race: the timer of withTimeout rejects with TIMEOUT_ERROR while the
\* retry loop is still running; the loop itself is not cancelled.
TimeoutFires ==
  /\ rt.phase \in {"running", "backoff"}
  /\ \/ rt.phase = "running"
        /\ \E d \in OpDurations : TimeoutDue(rt.elapsed + d)
     \/ rt.phase = "backoff"
        /\ TimeoutDue(rt.elapsed + Backoff(rt.caller, rt.attempt))
  /\ rt' = [rt EXCEPT !.elapsed = timeoutMsOf(rt.caller),
                      !.surfaced = "failure", !.code = "TIMEOUT_ERROR"]

RetryNext ==
  \/ \E c \in Callers, valid \in BOOLEAN : Mutate(c, valid)
  \/ \E d \in OpDurations : OperationSucceeds(d)
  \/ \E d \in OpDurations : OperationFails(d)
  \/ BackoffElapses
  \/ TimeoutFires

\* C7: a failure of a request is surfaced to the user only after the request
\* was retried: it was invoked a fixed number (at least two) of times, each
\* retry preceded by its exponential backoff delay, and the last invocation
\* failed.
C7_FailureSurfacedAfterRetries ==
  (rt.surfaced = "failure" /\ rt.invocations >= 1)
    => /\ rt.invocations >= 2
       /\ Len(rt.delays) = rt.invocations - 1
       /\ \A i \in 1..Len(rt.delays) : rt.delays[i] = 1000 * Pow2(i - 1)
       /\ rt.lastFailed
       /\ rt.phase = "done"

\* the promise returned by withRetry has settled
RetryResolved == rt.phase = "done" /\ rt.invocations >= 1 /\ ~rt.lastFailed
RetryRejected == rt.phase = "done" /\ rt.invocations >= 1 /\ rt.lastFailed

\* C20: withRetry terminates.  The operation is invoked at most maxRetries
\* times; withRetry resolves at the first invocation that succeeds (every
\* invocation before it failed) and does not invoke the operation again;
\* it rejects only when all maxRetries invocations failed, with the error
\* of the last one; and a call that is running always settles.
C20_WithRetryTerminates ==
  /\ [](rt.caller \in RetryCallers =>
         /\ rt.invocations <= maxRetriesOf(rt.caller)
         /\ RetryResolved => rt.lastError = rt.invocations - 1
         /\ RetryRejected => /\ rt.invocations = maxRetriesOf(rt.caller)
                             /\ rt.lastError = rt.invocations)
  /\ [][rt.phase = "done" => rt'.attempt <= 1]_retryVars
  /\ (rt.caller \in RetryCallers /\ rt.phase \in {"running", "backoff"})
        ~> (rt.phase = "done")

\* useProfile's withRetry(..., 3, 1000) has rejected after three failures
C20_Witness ==
  /\ rt.caller = "useProfile"
  /\ RetryRejected
  /\ rt.invocations = 3
  /\ rt.delays = <<1000, 2000>>

(***************************************************************************)
(* ClientRateLimiter (src/lib/security.ts).  Time is the value of          *)
(* Date.now() in milliseconds; the clock does not run backwards.  Each     *)
(* action name is used with one fixed pair (maxRequests, windowMs).        *)
(***************************************************************************)

\* The clock stops here.
MaxTime == 4

LimiterActions == {"login", "upload"}
MaxRequestsArgs == {1, 2}
WindowMsArgs == {2, 3}

\* requests : the Map<string, number[]> of the limiter
\* now      : Date.now()
\* limit    : the arguments each action is called with
\* granted  : the timestamps of the calls answered true, per action
\* lastCall : the last call of isAllowed and its answer
VARIABLES requests, now, limit, granted, lastCall

limiterVars == <<requests, now, limit, granted, lastCall>>

NoCall == [action |-> None, result |-> FALSE]

LimiterIdle ==
  /\ requests = [a \in LimiterActions |-> <<>>]
  /\ now = 0
  /\ limit = [a \in LimiterActions |-> [maxRequests |-> 1, windowMs |-> 2]]
  /\ granted = [a \in LimiterActions |-> <<>>]
  /\ lastCall = NoCall

LimiterInit ==
  /\ requests = [a \in LimiterActions |-> <<>>]
  /\ now = 0
  /\ limit \in [LimiterActions ->
                  [maxRequests : MaxRequestsArgs, windowMs : WindowMsArgs]]
  /\ granted = [a \in LimiterActions |-> <<>>]
  /\ lastCall = NoCall

\* timestamps.filter(ts => now - ts < windowMs)
RECURSIVE validTimestamps(_, _, _)
validTimestamps(timestamps, t, windowMs) ==
  IF timestamps = <<>> THEN <<>>
  ELSE LET rest == validTimestamps(Tail(timestamps), t, windowMs) IN
         IF t - Head(timestamps) < windowMs
           THEN <<Head(timestamps)>> \o rest
           ELSE rest

\* mutant of LimitReached: one request too many passes
LimitExceeded(valid, maxRequests) == Len(valid) > maxRequests

\* validTimestamps.length >= maxRequests
LimitReached(valid, maxRequests) == Len(valid) >= maxRequests

isAllowed(action) ==
  LET valid == validTimestamps(requests[action], now, limit[action].windowMs)
  IN IF LimitReached(valid, limit[action].maxRequests)
       THEN /\ lastCall' = [action |-> action, result |-> FALSE]
            /\ UNCHANGED <<requests, now, limit, granted>>
       ELSE /\ requests' = [requests EXCEPT ![action] = Append(valid, now)]
            /\ granted' = [granted EXCEPT ![action] = Append(@, now)]
            /\ lastCall' = [action |-> action, result |-> TRUE]
            /\ UNCHANGED <<now, limit>>

\* Time passes between calls.
Tick ==
  /\ now < MaxTime
  /\ now' = now + 1
  /\ UNCHANGED <<requests, limit, granted, lastCall>>

LimiterNext ==
  \/ \E a \in LimiterActions : isAllowed(a)
  \/ Tick

\* The calls of an action answered true with a timestamp in [lo, hi].
GrantedIn(a, lo, hi) ==
  {i \in DOMAIN granted[a] : lo <= granted[a][i] /\ granted[a][i] <= hi}

\* C8: for each action, in every time interval shorter than windowMs at most
\* maxRequests calls of isAllowed were answered true.
C8_SlidingWindow ==
  \A a \in LimiterActions : \A lo \in 0..MaxTime, hi \in 0..MaxTime :
    (lo <= hi /\ hi - lo < limit[a].windowMs)
      => Cardinality(GrantedIn(a, lo, hi)) <= limit[a].maxRequests

\* A call is refused at the limit after the window has already slid once:
\* more than maxRequests calls were granted over time.
C8_Witness ==
  \E a \in LimiterActions :
    /\ lastCall = [action |-> a, result |-> FALSE]
    /\ Len(granted[a]) > limit[a].maxRequests
    /\ limit[a].maxRequests = 2

(***************************************************************************)
(* handleError (part_007) and the errors thrown by ApiService and the      *)
(* hooks.  A message is the sequence of its characters, so that            *)
(* String.prototype.includes is the case-sensitive substring test.         *)
(***************************************************************************)

\* The handled errors kept in the log.
MaxHandled == 2

\* new Error('Validation failed'), thrown by ApiService when validateData fails
MsgValidationFailed ==
  <<"V", "a", "l", "i", "d", "a", "t", "i", "o", "n", " ", "f", "a", "i",
    "l", "e", "d">>

\* new Error('User not authenticated'), thrown by ApiService without a session
MsgUserNotAuthenticated ==
  <<"U", "s", "e", "r", " ", "n", "o", "t", " ", "a", "u", "t", "h", "e",
    "n", "t", "i", "c", "a", "t", "e", "d">>

\* new Error('File size exceeds 10MB limit'), thrown by ApiService.uploadFile
MsgFileSize ==
  <<"F", "i", "l", "e", " ", "s", "i", "z", "e", " ", "e", "x", "c", "e",
    "e", "d", "s", " ", "1", "0", "M", "B", " ", "l", "i", "m", "i", "t">>

\* new Error('Invalid file type. ...'), thrown by ApiService.uploadFile
MsgInvalidFileType ==
  <<"I", "n", "v", "a", "l", "i", "d", " ", "f", "i", "l", "e", " ", "t",
    "y", "p", "e", ".", " ", "O", "n", "l", "y", " ", "J", "P", "E", "G",
    ",", " ", "P", "N", "G", ",", " ", "a", "n", "d", " ", "W", "e", "b",
    "P", " ", "a", "r", "e", " ", "a", "l", "l", "o", "w", "e", "d", ".">>

\* new Error('Name must be at least 2 characters'), thrown by useUpdateProfile
MsgNameTooShort ==
  <<"N", "a", "m", "e", " ", "m", "u", "s", "t", " ", "b", "e", " ", "a",
    "t", " ", "l", "e", "a", "s", "t", " ", "2", " ", "c", "h", "a", "r",
    "a", "c", "t", "e", "r", "s">>

\* the TypeError of a fetch that could not reach the server
MsgFailedToFetch ==
  <<"F", "a", "i", "l", "e", "d", " ", "t", "o", " ", "f", "e", "t", "c",
    "h">>

\* the message of an expired session token
MsgJwtExpired ==
  <<"J", "W", "T", " ", "e", "x", "p", "i", "r", "e", "d">>

\* The substrings handleError looks for.
SubFetch == <<"f", "e", "t", "c", "h">>
SubNetwork == <<"n", "e", "t", "w", "o", "r", "k">>
SubJWT == <<"J", "W", "T">>
SubAuth == <<"a", "u", "t", "h">>
SubDatabase == <<"d", "a", "t", "a", "b", "a", "s", "e">>
SubRelation == <<"r", "e", "l", "a", "t", "i", "o", "n">>
SubValidation == <<"v", "a", "l", "i", "d", "a", "t", "i", "o", "n">>
SubRequired == <<"r", "e", "q", "u", "i", "r", "e", "d">>
SubFile == <<"f", "i", "l", "e">>
SubUpload == <<"u", "p", "l", "o", "a", "d">>

\* String.prototype.includes
Includes(s, sub) ==
  \E i \in 1..(Len(s) - Len(sub) + 1) : SubSeq(s, i, i + Len(sub) - 1) = sub

\* The values passed to handleError: an Error carrying a message, a string,
\* or an AppError object already produced by handleError.  cause is the
\* failure at the throw site.
ErrorValue(kind, message, cause) ==
  [kind |-> kind, message |-> message, cause |-> cause, code |-> None]

ThrownErrors ==
  { ErrorValue("Error", MsgValidationFailed, "validation"),
    ErrorValue("Error", MsgNameTooShort, "validation"),
    ErrorValue("Error", MsgUserNotAuthenticated, "auth"),
    ErrorValue("Error", MsgJwtExpired, "auth"),
    ErrorValue("Error", MsgFailedToFetch, "network"),
    ErrorValue("Error", MsgFileSize, "upload"),
    ErrorValue("Error", MsgInvalidFileType, "upload"),
    ErrorValue("string", MsgFailedToFetch, "network") }

NoError == ErrorValue(None, <<>>, None)

\* thrown  : the error in flight, or NoError
\* handled : the AppErrors returned by handleError, with the cause of each
VARIABLES thrown, handled

errVars == <<thrown, handled>>

ErrIdle == thrown = NoError /\ handled = <<>>

ErrInit == thrown = NoError /\ handled = <<>>

\* The code of the AppError that handleError returns.
handleError(error) ==
  IF error.kind = "Error"
    THEN CASE Includes(error.message, SubFetch)
                \/ Includes(error.message, SubNetwork) -> "NETWORK_ERROR"
           [] Includes(error.message, SubJWT)
                \/ Includes(error.message, SubAuth) -> "AUTH_FAILED"
           [] Includes(error.message, SubDatabase)
                \/ Includes(error.message, SubRelation) -> "DATABASE_ERROR"
           [] Includes(error.message, SubValidation)
                \/ Includes(error.message, SubRequired) -> "VALIDATION_FAILED"
           [] Includes(error.message, SubFile)
                \/ Includes(error.message, SubUpload) -> "UPLOAD_FAILED"
           [] OTHER -> "UNKNOWN_ERROR"
    ELSE "UNKNOWN_ERROR"

\* An operation fails.
Throw(e) ==
  /\ thrown = NoError
  /\ Len(handled) < MaxHandled
  /\ thrown' = e
  /\ UNCHANGED handled

\* throw handleError(error, ...): the AppError replaces the error in flight.
HandleAndRethrow ==
  /\ thrown # NoError
  /\ thrown.kind # "AppError"
  /\ thrown' = [thrown EXCEPT !.kind = "AppError",
                              !.code = handleError(thrown)]
  /\ UNCHANGED handled

\* onError: const appError = handleError(error, ...); toast(appError.message)
HandleAndSurface ==
  /\ thrown # NoError
  /\ handled' = Append(handled, [cause |-> thrown.cause, kind |-> thrown.kind,
                                 code |-> handleError(thrown)])
  /\ thrown' = NoError

ErrNext ==
  \/ \E e \in ThrownErrors : Throw(e)
  \/ HandleAndRethrow
  \/ HandleAndSurface

\* The bucket the cause of a failure belongs to.
BucketOf(cause) ==
  CASE cause = "network" -> "NETWORK_ERROR"
    [] cause = "auth" -> "AUTH_FAILED"
    [] cause = "validation" -> "VALIDATION_FAILED"
    [] cause = "upload" -> "UPLOAD_FAILED"

\* C9: handleError puts an Error in the bucket of its cause: a network
\* failure in NETWORK_ERROR, an authentication failure in AUTH_FAILED, an
\* input-validation failure in VALIDATION_FAILED, an upload failure in
\* UPLOAD_FAILED.
C9_BucketMatchesCause ==
  \A i \in DOMAIN handled :
    handled[i].kind = "Error" => handled[i].code = BucketOf(handled[i].cause)

(***************************************************************************)
(* The assistant page (src/pages/Assistant.tsx): threads of messages, the  *)
(* guardrail check and the request to the Gemini API.  A text is the       *)
(* sequence of its characters.                                             *)
(***************************************************************************)

\* Messages the user may post, and thread ids that may be allocated.
MaxSends == 2
MaxIds == 3

UpperCase ==
  <<"A", "B", "C", "D", "E", "F", "G", "H", "I", "J", "K", "L", "M", "N",
    "O", "P", "Q", "R", "S", "T", "U", "V", "W", "X", "Y", "Z">>
LowerCase ==
  <<"a", "b", "c", "d", "e", "f", "g", "h", "i", "j", "k", "l", "m", "n",
    "o", "p", "q", "r", "s", "t", "u", "v", "w", "x", "y", "z">>

\* String.prototype.toLowerCase
ToLowerChar(c) ==
  IF \E i \in DOMAIN UpperCase : UpperCase[i] = c
    THEN LowerCase[CHOOSE i \in DOMAIN UpperCase : UpperCase[i] = c]
    ELSE c

toLowerCase(text) == [i \in DOMAIN text |-> ToLowerChar(text[i])]

\* String.prototype.trim
RECURSIVE trimStart(_)
trimStart(text) ==
  IF text # <<>> /\ Head(text) = " " THEN trimStart(Tail(text)) ELSE text

RECURSIVE trimEnd(_)
trimEnd(text) ==
  IF text # <<>> /\ text[Len(text)] = " "
    THEN trimEnd(SubSeq(text, 1, Len(text) - 1))
    ELSE text

trim(text) == trimEnd(trimStart(text))

\* The alternatives of /(password|credit card|otp|ssn)/
SafetyPatterns ==
  { <<"p", "a", "s", "s", "w", "o", "r", "d">>,
    <<"c", "r", "e", "d", "i", "t", " ", "c", "a", "r", "d">>,
    <<"o", "t", "p">>,
    <<"s", "s", "n">> }

\* The alternatives of /medical|legal advice/
AdvicePatterns ==
  { <<"m", "e", "d", "i", "c", "a", "l">>,
    <<"l", "e", "g", "a", "l", " ", "a", "d", "v", "i", "c", "e">> }

\* What the user types into the input box.
TxtOtp ==
  <<"m", "y", " ", "O", "T", "P", " ">>
TxtLegalAdvice ==
  <<"L", "e", "g", "a", "l", " ", "a", "d", "v", "i", "c", "e">>
TxtLegal ==
  <<"l", "e", "g", "a", "l">>
TxtBlank ==
  <<" ">>

InputTexts == {TxtOtp, TxtLegalAdvice, TxtLegal, TxtBlank}

\* The reply of violatesGuardrails: "" when the text may be sent.
NoViolation == ""

\* mutant of violatesGuardrails: the text is tested as typed
violatesGuardrailsAsTyped(text) ==
  IF \E p \in SafetyPatterns : Includes(text, p) THEN "safety"
  ELSE IF \E p \in AdvicePatterns : Includes(text, p) THEN "advice"
  ELSE NoViolation

violatesGuardrails(text) ==
  LET lower == toLowerCase(text) IN
    IF \E p \in SafetyPatterns : Includes(lower, p) THEN "safety"
    ELSE IF \E p \in AdvicePatterns : Includes(lower, p) THEN "advice"
    ELSE NoViolation

\* activeId '' and "no request in flight"
NoThread == 0
NoRequest ==
  [text |-> <<>>, active |-> NoThread, thread |-> NoThread, open |-> FALSE,
   outcome |-> "none"]

\* threads  : Thread[], each [id, messages]
\* activeId : the selected thread, NoThread for ''
\* input    : the text in the input box
\* isTyping : a request to Gemini is in flight
\* request  : the pending generateContent call: its text, the thread that was
\*            active when send() ran and the thread that received the user's
\*            message; once settled, how the last call ended
\* apiCalls : the texts passed to generateContent so far
\* nextId   : the next thread id (crypto.randomUUID)
\* sends    : the messages posted so far
VARIABLES threads, activeId, input, isTyping, request, apiCalls, nextId, sends

assistantVars ==
  <<threads, activeId, input, isTyping, request, apiCalls, nextId, sends>>

AssistantInit ==
  /\ threads = <<>>
  /\ activeId = NoThread
  /\ input = <<>>
  /\ isTyping = FALSE
  /\ request = NoRequest
  /\ apiCalls = {}
  /\ nextId = 1
  /\ sends = 0

NewThread(id) == [id |-> id, messages |-> <<>>]
UserMsg(text) == [role |-> "user", content |-> text, reply |-> "none"]
\* An assistant message: reply is the kind of answer, content the question.
BotMsg(text, reply) == [role |-> "assistant", content |-> text, reply |-> reply]

\* prev.filter(x => x.id !== id)
RECURSIVE WithoutThread(_, _)
WithoutThread(ts, id) ==
  IF ts = <<>> THEN <<>>
  ELSE IF Head(ts).id = id THEN WithoutThread(Tail(ts), id)
  ELSE <<Head(ts)>> \o WithoutThread(Tail(ts), id)

HasThread(ts, id) == \E i \in DOMAIN ts : ts[i].id = id

\* threads.find(t => t.id === activeId) ?? null
ThreadOf(ts, id) == ts[CHOOSE i \in DOMAIN ts : ts[i].id = id]

\* prev.map(t => t.id === (active?.id ?? prev[0].id) ? {...t, messages: [...t.messages, msg]} : t)
AppendReply(ts, active, msg) ==
  IF ts = <<>> THEN ts
  ELSE LET target == IF active # NoThread THEN active ELSE ts[1].id IN
         [i \in DOMAIN ts |->
            IF ts[i].id = target
              THEN [ts[i] EXCEPT !.messages = Append(@, msg)]
              ELSE ts[i]]

\* useEffect: if (!activeId && threads.length > 0) setActiveId(threads[0].id)
EffectActiveId(ts, id) ==
  IF id = NoThread /\ ts # <<>> THEN ts[1].id ELSE id

SetInput(text) ==
  /\ ~isTyping
  /\ sends < MaxSends
  /\ input' = text
  /\ UNCHANGED <<threads, activeId, isTyping, request, apiCalls, nextId, sends>>

startThread ==
  /\ nextId <= MaxIds
  /\ threads' = <<NewThread(nextId)>> \o threads
  /\ activeId' = nextId
  /\ nextId' = nextId + 1
  /\ UNCHANGED <<input, isTyping, request, apiCalls, sends>>

clearThread ==
  /\ HasThread(threads, activeId)
  /\ threads' = [i \in DOMAIN threads |->
                   IF threads[i].id = activeId
                     THEN [threads[i] EXCEPT !.messages = <<>>]
                     ELSE threads[i]]
  /\ UNCHANGED <<activeId, input, isTyping, request, apiCalls, nextId, sends>>

removeThread ==
  /\ HasThread(threads, activeId)
  /\ threads' = WithoutThread(threads, activeId)
  /\ activeId' = EffectActiveId(threads', NoThread)
  /\ UNCHANGED <<input, isTyping, request, apiCalls, nextId, sends>>

SelectThread(id) ==
  /\ HasThread(threads, id)
  /\ activeId # id
  /\ activeId' = id
  /\ UNCHANGED <<threads, input, isTyping, request, apiCalls, nextId, sends>>

send ==
  LET text == trim(input)
      active == IF HasThread(threads, activeId) THEN activeId ELSE NoThread
      violation == violatesGuardrails(text)
      \* if (!active) startThread()
      afterStart == IF active = NoThread
                      THEN <<NewThread(nextId)>> \o threads
                      ELSE threads
      \* const t = active ?? {id: crypto.randomUUID(), ..., messages: []}
      t == IF active = NoThread
             THEN NewThread(nextId + 1)
             ELSE ThreadOf(threads, active)
      updated == [t EXCEPT !.messages = Append(@, UserMsg(text))]
      afterUser == <<updated>> \o WithoutThread(afterStart, t.id)
  IN /\ text # <<>>
     /\ ~isTyping
     /\ sends < MaxSends
     /\ active = NoThread => nextId + 1 <= MaxIds
     /\ sends' = sends + 1
     /\ input' = <<>>
     /\ nextId' = IF active = NoThread THEN nextId + 2 ELSE nextId
     /\ activeId' = IF active = NoThread THEN nextId ELSE activeId
     /\ IF violation # NoViolation
          THEN /\ threads' = AppendReply(afterUser, active,
                                         BotMsg(text, violation))
               /\ UNCHANGED <<isTyping, request, apiCalls>>
          ELSE /\ threads' = afterUser
               /\ isTyping' = TRUE
               /\ request' = [text |-> text, active |-> active,
                               thread |-> t.id, open |-> TRUE,
                               outcome |-> "pending"]
               /\ apiCalls' = apiCalls \cup {text}

\* model.generateContent resolves: the answer is appended.
GeminiResolves ==
  /\ request.open
  /\ threads' = AppendReply(threads, request.active,
                            BotMsg(request.text, "ai"))
  /\ isTyping' = FALSE
  /\ request' = [NoRequest EXCEPT !.outcome = "ai"]
  /\ UNCHANGED <<activeId, input, apiCalls, nextId, sends>>

\* model.generateContent rejects: the knowledge-base answer is appended.
GeminiRejects ==
  /\ request.open
  /\ threads' = AppendReply(threads, request.active,
                            BotMsg(request.text, "fallback"))
  /\ isTyping' = FALSE
  /\ request' = [NoRequest EXCEPT !.outcome = "fallback"]
  /\ UNCHANGED <<activeId, input, apiCalls, nextId, sends>>

AssistantNext ==
  \/ \E text \in InputTexts : SetInput(text)
  \/ send
  \/ GeminiResolves
  \/ GeminiRejects
  \/ startThread
  \/ clearThread
  \/ removeThread
  \/ \E id \in 1..MaxIds : SelectThread(id)

\* The text contains one of the guardrail patterns, whatever its case.
MatchesGuardrail(text) ==
  \E p \in SafetyPatterns \cup AdvicePatterns : Includes(toLowerCase(text), p)

\* The last two messages of some thread are the user's text and a guardrail
\* reply.
GuardrailReplyShown(ts, text) ==
  \E i \in DOMAIN ts :
    LET m == ts[i].messages IN
      /\ Len(m) >= 2
      /\ m[Len(m) - 1] = UserMsg(text)
      /\ m[Len(m)].role = "assistant"
      /\ m[Len(m)].reply \in {"safety", "advice"}

\* C10: no text matching a guardrail pattern is ever passed to the Gemini
\* API, and a send() of such a text appends the guardrail reply after the
\* user's message and returns without starting a request.
C10_GuardrailBlocks ==
  /\ [](\A text \in apiCalls : ~MatchesGuardrail(text))
  /\ [][(sends' = sends + 1 /\ MatchesGuardrail(trim(input)))
          => /\ apiCalls' = apiCalls
             /\ request' = request
             /\ isTyping' = isTyping
             /\ GuardrailReplyShown(threads', trim(input))]_assistantVars

\* An upper-case "my OTP" was answered by the guardrail and never sent, while
\* another message did go to the API.
C10_Witness ==
  /\ GuardrailReplyShown(threads, trim(TxtOtp))
  /\ trim(TxtOtp) \notin apiCalls
  /\ apiCalls # {}

\* The messages of the thread with this id.
MessagesOf(ts, id) == ThreadOf(ts, id).messages

\* C11: when the call to the AI service fails while the user's message is
\* still the last message of its thread, that thread receives exactly one
\* reply, the knowledge-base answer.
C11_FallbackInSameThread ==
  [][(request.open /\ request'.outcome = "fallback"
        /\ HasThread(threads, request.thread)
        /\ MessagesOf(threads, request.thread) # <<>>
        /\ MessagesOf(threads, request.thread)
              [Len(MessagesOf(threads, request.thread))]
             = UserMsg(request.text))
       => /\ HasThread(threads', request.thread)
          /\ MessagesOf(threads', request.thread)
               = Append(MessagesOf(threads, request.thread),
                        BotMsg(request.text, "fallback"))]_assistantVars

(***************************************************************************)
(* The Store page (src/pages/Store.tsx): the catalog and the redemption    *)
(* list are React state mirrored into localStorage by effects and read     *)
(* back when the page is mounted again.  The values stored are arrays of   *)
(* objects holding strings, integers and booleans, which JSON.stringify    *)
(* and JSON.parse carry over unchanged.                                    *)
(***************************************************************************)

\* Redemptions, created items and page loads in one behaviour.
MaxRedeems == 1
MaxCreated == 1
MaxLoads == 2

Item(id, name, coins, inventory, active) ==
  [id |-> id, name |-> name, coins |-> coins, inventory |-> inventory,
   active |-> active]

\* The three items of DEFAULTS, with their prices; stocks are cut to 1.
DEFAULTS ==
  << Item("d1", "Eco Tote Bag", 150, 1, TRUE),
     Item("d2", "Plant Sapling", 200, 1, TRUE),
     Item("d3", "E-Waste Pickup Credit", 100, 1, TRUE) >>

\* profile.eco_coins as served by useProfile
StoreProfileCoins == 150

\* What the admin types into the item form.
NameInputs == {"", "Mug"}
CoinsInputs == {0, 50}

\* localStorage.getItem returns null for a key never written.
NoEntry == [present |-> FALSE, value |-> <<>>]
JSONstringify(v) == [present |-> TRUE, value |-> v]
JSONparse(raw) == raw.value

\* crypto.randomUUID(), in the order the ids are handed out
NewIds == <<"n1", "n2", "n3">>

NoEditing == [open |-> FALSE, item |-> Item("", "", 0, 0, TRUE)]

\* catalog, redemptions, editing : the state of the mounted page
\* lsCatalog, lsRedemptions      : the two localStorage entries
\* created, loads                : ids handed out and page loads so far
VARIABLES catalog, redemptions, editing, lsCatalog, lsRedemptions,
          created, loads

storeVars ==
  <<catalog, redemptions, editing, lsCatalog, lsRedemptions, created, loads>>

\* raw ? JSON.parse(raw) : []
loadCatalog(raw) == IF raw.present THEN JSONparse(raw) ELSE <<>>
loadRedemptions(raw) == IF raw.present THEN JSONparse(raw) ELSE <<>>

\* useState initialiser of catalog
InitialCatalog(raw) ==
  IF Len(loadCatalog(raw)) > 0 THEN loadCatalog(raw) ELSE DEFAULTS

\* First visit: nothing is stored; the page mounts and its effects run.
StoreInit ==
  /\ catalog = InitialCatalog(NoEntry)
  /\ redemptions = loadRedemptions(NoEntry)
  /\ editing = NoEditing
  /\ lsCatalog = JSONstringify(catalog)
  /\ lsRedemptions = JSONstringify(redemptions)
  /\ created = 0
  /\ loads = 1

RECURSIVE FilterOutItem(_, _)
FilterOutItem(items, id) ==
  IF items = <<>> THEN <<>>
  ELSE IF Head(items).id = id THEN FilterOutItem(Tail(items), id)
  ELSE <<Head(items)>> \o FilterOutItem(Tail(items), id)

startCreate ==
  /\ created < MaxCreated
  /\ editing' = [open |-> TRUE, item |-> Item("", "", 0, 0, TRUE)]
  /\ UNCHANGED <<catalog, redemptions, lsCatalog, lsRedemptions, created,
                 loads>>

EditItem(i) ==
  /\ i \in DOMAIN catalog
  /\ editing' = [open |-> TRUE, item |-> catalog[i]]
  /\ UNCHANGED <<catalog, redemptions, lsCatalog, lsRedemptions, created,
                 loads>>

\* The form fields: name, coins and the active checkbox.
ChangeForm(name, coins, active) ==
  /\ editing.open
  /\ editing' = [editing EXCEPT !.item.name = name, !.item.coins = coins,
                                !.item.active = active]
  /\ editing' # editing
  /\ UNCHANGED <<catalog, redemptions, lsCatalog, lsRedemptions, created,
                 loads>>

saveItem ==
  /\ editing.open
  /\ editing.item.name # ""
  /\ editing.item.coins > 0
  /\ IF editing.item.id # ""
       THEN /\ catalog' = [i \in DOMAIN catalog |->
                             IF catalog[i].id = editing.item.id
                               THEN editing.item ELSE catalog[i]]
            /\ UNCHANGED created
       ELSE /\ catalog' = <<[editing.item EXCEPT !.id = NewIds[created + 1]]>>
                         \o catalog
            /\ created' = created + 1
  /\ editing' = NoEditing
  /\ lsCatalog' = JSONstringify(catalog')
  /\ UNCHANGED <<redemptions, lsRedemptions, loads>>

removeItem(id) ==
  /\ \E i \in DOMAIN catalog : catalog[i].id = id
  /\ catalog' = FilterOutItem(catalog, id)
  /\ lsCatalog' = JSONstringify(catalog')
  /\ UNCHANGED <<redemptions, editing, lsRedemptions, created, loads>>

redeem(i) ==
  /\ i \in DOMAIN catalog
  /\ Len(redemptions) < MaxRedeems
  /\ StoreProfileCoins >= catalog[i].coins
  /\ catalog[i].inventory > 0 /\ catalog[i].active
  /\ redemptions' = <<[itemId |-> catalog[i].id, userId |-> "uid",
                       coinsSpent |-> catalog[i].coins]>> \o redemptions
  /\ catalog' = [catalog EXCEPT ![i].inventory = @ - 1]
  /\ lsCatalog' = JSONstringify(catalog')
  /\ lsRedemptions' = JSONstringify(redemptions')
  /\ UNCHANGED <<editing, created, loads>>

\* The page is loaded again: state is rebuilt from localStorage and the
\* effects write it back.
Reload ==
  /\ loads < MaxLoads
  /\ loads' = loads + 1
  /\ catalog' = InitialCatalog(lsCatalog)
  /\ redemptions' = loadRedemptions(lsRedemptions)
  /\ editing' = NoEditing
  /\ lsCatalog' = JSONstringify(catalog')
  /\ lsRedemptions' = JSONstringify(redemptions')
  /\ UNCHANGED created

StoreNext ==
  \/ startCreate
  \/ \E i \in DOMAIN catalog : EditItem(i)
  \/ \E name \in NameInputs, coins \in CoinsInputs, active \in BOOLEAN :
       ChangeForm(name, coins, active)
  \/ saveItem
  \/ \E i \in DOMAIN catalog : removeItem(catalog[i].id)
  \/ \E i \in DOMAIN catalog : redeem(i)
  \/ Reload

\* C12: the catalog and the redemption list read back from localStorage by
\* a reload equal the in-memory catalog and redemption list before it.
C12_ReloadRoundTrip ==
  [][loads' = loads + 1
       => catalog' = catalog /\ redemptions' = redemptions]_storeVars

(***************************************************************************)
(* computeCO2SavedKg (part_008).  JavaScript numbers are IEEE-754 doubles: *)
(* a weight typed as a decimal is the nearest double, the product is       *)
(* rounded to 53 significant bits, and toFixed(2) rounds the exact value   *)
(* of that double.  A real x is held as the natural x * 2^k, kept as a     *)
(* sequence of 15-bit limbs.                                               *)
(***************************************************************************)

\* Significant bits of a double, and fractional bits kept for a parsed weight.
MantissaBits == 53
FracBits == 70

\* A wide natural is a little-endian sequence of limbs below LimbBase.
LimbBits == 15
LimbBase == 32768

RECURSIVE NatToLimbs(_)
NatToLimbs(n) ==
  IF n = 0 THEN <<>> ELSE <<n % LimbBase>> \o NatToLimbs(n \div LimbBase)

RECURSIVE LimbsToNat(_)
LimbsToNat(a) ==
  IF a = <<>> THEN 0 ELSE Head(a) + LimbBase * LimbsToNat(Tail(a))

\* Drop the zero limbs at the top.
RECURSIVE Normalize(_)
Normalize(a) ==
  IF a = <<>> THEN a
  ELSE IF a[Len(a)] = 0 THEN Normalize(SubSeq(a, 1, Len(a) - 1))
  ELSE a

RECURSIVE AddLimbs(_, _, _)
AddLimbs(a, b, carry) ==
  IF a = <<>> /\ b = <<>> THEN NatToLimbs(carry)
  ELSE LET s == (IF a = <<>> THEN 0 ELSE Head(a))
                + (IF b = <<>> THEN 0 ELSE Head(b)) + carry
       IN <<s % LimbBase>> \o AddLimbs(IF a = <<>> THEN a ELSE Tail(a),
                                       IF b = <<>> THEN b ELSE Tail(b),
                                       s \div LimbBase)

\* a * k + carry for k up to LimbBase
RECURSIVE MulSmall(_, _, _)
MulSmall(a, k, carry) ==
  IF a = <<>> THEN NatToLimbs(carry)
  ELSE LET s == Head(a) * k + carry
       IN <<s % LimbBase>> \o MulSmall(Tail(a), k, s \div LimbBase)

\* quotient and remainder of a by d, for d up to LimbBase
RECURSIVE DivSmall(_, _)
DivSmall(a, d) ==
  IF a = <<>> THEN [q |-> <<>>, r |-> 0]
  ELSE LET hi == DivSmall(Tail(a), d)
           cur == LimbBase * hi.r + Head(a)
       IN [q |-> <<cur \div d>> \o hi.q, r |-> cur % d]

ShiftLeftBits(a, k) ==
  [i \in 1..(k \div LimbBits) |-> 0] \o MulSmall(a, Pow2(k % LimbBits), 0)

\* a shifted right by k bits, and whether a one was shifted out
ShiftRightBits(a, k) ==
  LET drop == k \div LimbBits
      dv == DivSmall(IF Len(a) <= drop THEN <<>>
                     ELSE SubSeq(a, drop + 1, Len(a)), Pow2(k % LimbBits))
  IN [q |-> Normalize(dv.q),
      sticky |-> dv.r # 0 \/ \E i \in 1..drop : i <= Len(a) /\ a[i] # 0]

RECURSIVE SmallBitLen(_)
SmallBitLen(n) == IF n = 0 THEN 0 ELSE 1 + SmallBitLen(n \div 2)

BitLen(a) ==
  IF a = <<>> THEN 0 ELSE LimbBits * (Len(a) - 1) + SmallBitLen(a[Len(a)])

\* Round a (plus a fraction, when inexact) to 53 significant bits, ties to
\* even.
RoundToDouble(a, inexact) ==
  LET n == BitLen(a) IN
    IF n <= MantissaBits THEN a
    ELSE LET d == n - MantissaBits
             s == ShiftRightBits(a, d - 1)
             q == ShiftRightBits(s.q, 1).q
             half == s.q[1] % 2 = 1
             up == half /\ (s.sticky \/ inexact \/ q[1] % 2 = 1)
         IN ShiftLeftBits(IF up THEN AddLimbs(q, <<1>>, 0) ELSE q, d)

\* The double of the decimal literal w/100, as a natural scaled by 2^FracBits.
ParseHundredths(w) ==
  LET dv == DivSmall(ShiftLeftBits(NatToLimbs(w), FracBits), 100)
  IN RoundToDouble(Normalize(dv.q), dv.r # 0)

Categories ==
  {"Smartphones", "Laptops", "Tablets", "Batteries", "Cables", "Chargers",
   "Gaming", "Audio", "Computer Parts", "Storage"}

\* A category string with no entry in CO2_SAVED_FACTOR.
OtherCategory == "Other"

\* Twice CO2_SAVED_FACTOR[category] ?? 4 (every factor is a multiple of 0.5).
TwiceFactor(category) ==
  CASE category = "Smartphones" -> 13
    [] category = "Laptops" -> 20
    [] category = "Tablets" -> 14
    [] category = "Batteries" -> 6
    [] category = "Cables" -> 4
    [] category = "Chargers" -> 6
    [] category = "Gaming" -> 8
    [] category = "Audio" -> 7
    [] category = "Computer Parts" -> 10
    [] category = "Storage" -> 11
    [] OTHER -> 8

\* Number((factor * weightKg).toFixed(2)), in hundredths of a kg, for the
\* weight w/100.
computeCO2SavedKg(category, w) ==
  LET product == RoundToDouble(
                   Normalize(MulSmall(ParseHundredths(w),
                                      TwiceFactor(category), 0)), FALSE)
      scale == FracBits + 1
      \* toFixed(2): the integer n nearest to product * 100, the larger on a tie
      n == ShiftRightBits(AddLimbs(MulSmall(product, 100, 0),
                                   ShiftLeftBits(<<1>>, scale - 1), 0), scale).q
  IN LimbsToNat(n)

\* Weights, in hundredths of a kg.
WeightInputs == {0, 3, 9, 11, 25, 50, 70, 100, 135, 1000}

NoResult == -1

\* co2Input  : the arguments of the call
\* co2Result : the value returned, in hundredths, NoResult before the call
VARIABLES co2Input, co2Result

co2Vars == <<co2Input, co2Result>>

Co2Idle ==
  /\ co2Input = [category |-> "Gaming", weight |-> 0]
  /\ co2Result = NoResult

Co2Init ==
  /\ co2Input \in [category : Categories \cup {OtherCategory},
                   weight : WeightInputs]
  /\ co2Result = NoResult

Compute ==
  /\ co2Result = NoResult
  /\ co2Result' = computeCO2SavedKg(co2Input.category, co2Input.weight)
  /\ UNCHANGED co2Input

Co2Next == Compute

\* weight * factor rounded to two decimals, half up, in hundredths.
RoundedProduct(category, w) == (w * TwiceFactor(category) + 1) \div 2

\* C13: computeCO2SavedKg(X, Y) is Y multiplied by factor(X) and rounded to
\* two decimals, with factor 4 for a category without an entry.
C13_Co2IsRoundedProduct ==
  co2Result # NoResult
    => co2Result = RoundedProduct(co2Input.category, co2Input.weight)

(***************************************************************************)
(* The hooks that write the tables from the browser (the first             *)
(* useDatabase.ts of part_009, used by RewardsSection in Layout.tsx).      *)
(* Every await is one request to the server; requests of mutations in      *)
(* flight interleave.  One user, who owns a profiles row.                  *)
(***************************************************************************)
MaxClientMut == 2
ClientMutIds == 1 .. MaxClientMut
ClientInitCoins == {2, 3}
\* rewards.coins_required of the rewards on offer
RewardPrices == {2, 3}
\* detection.eco_coins_earned
EarnedInputs == {1, 2}
\* nothing selected yet
NotRead == [eco_coins |-> -1, total_items_recycled |-> -1]
IdleMutation == [kind |-> "none", pc |-> "idle", amount |-> 0, profile |-> NotRead]

VARIABLES profileRow, profileAtStart, detectionRows, redemptionRows,
          cachedProfile, mutation

clientVars == <<profileRow, profileAtStart, detectionRows, redemptionRows,
                cachedProfile, mutation>>

ClientIdle ==
  /\ profileRow = [eco_coins |-> 0, total_items_recycled |-> 0]
  /\ profileAtStart = profileRow
  /\ detectionRows = {}
  /\ redemptionRows = {}
  /\ cachedProfile = profileRow
  /\ mutation = [m \in ClientMutIds |-> IdleMutation]

ClientInit ==
  /\ profileRow \in {[eco_coins |-> c, total_items_recycled |-> 0] : c \in ClientInitCoins}
  /\ profileAtStart = profileRow
  /\ detectionRows = {}
  /\ redemptionRows = {}
  /\ cachedProfile = profileRow
  /\ mutation = [m \in ClientMutIds |-> IdleMutation]

\* redeemReward.isPending
isPending == \E m \in ClientMutIds :
  mutation[m].kind = "redeem" /\ mutation[m].pc \notin {"success", "error"}

\* the UPDATE of profiles is refused when it breaks check_eco_coins_positive;
\* the hooks do not look at the error of that request
UpdateProfiles(row, new) == IF new.eco_coins >= 0 THEN new ELSE row

\* RewardsSection.handleRedeem: the button is disabled while a redemption is
\* pending; the guard reads the profile served from the cache
handleRedeem(m, price) ==
  /\ mutation[m].pc = "idle"
  /\ \A k \in ClientMutIds : k < m => mutation[k].pc # "idle"
  /\ ~isPending
  /\ cachedProfile.eco_coins >= price
  /\ mutation' = [mutation EXCEPT ![m] =
       [kind |-> "redeem", pc |-> "select", amount |-> price, profile |-> NotRead]]
  /\ UNCHANGED <<profileRow, profileAtStart, detectionRows, redemptionRows,
                 cachedProfile>>

\* useRedeemReward.mutationFn: select eco_coins, throw when too few
RedeemSelectProfile(m) ==
  /\ mutation[m].kind = "redeem" /\ mutation[m].pc = "select"
  /\ mutation' = [mutation EXCEPT ![m] =
       IF profileRow.eco_coins < @.amount
         THEN [@ EXCEPT !.pc = "error", !.profile = profileRow]
         ELSE [@ EXCEPT !.pc = "insert", !.profile = profileRow]]
  /\ UNCHANGED <<profileRow, profileAtStart, detectionRows, redemptionRows,
                 cachedProfile>>

\* insert into reward_redemptions
RedeemInsert(m) ==
  /\ mutation[m].kind = "redeem" /\ mutation[m].pc = "insert"
  /\ redemptionRows' = redemptionRows \cup {[id |-> m, coins |-> mutation[m].amount]}
  /\ mutation' = [mutation EXCEPT ![m] = [@ EXCEPT !.pc = "update"]]
  /\ UNCHANGED <<profileRow, profileAtStart, detectionRows, cachedProfile>>

\* update profiles set eco_coins = profile.eco_coins - coinsSpent; then
\* onSuccess invalidates ['profile']
RedeemUpdateProfile(m) ==
  /\ mutation[m].kind = "redeem" /\ mutation[m].pc = "update"
  /\ profileRow' = UpdateProfiles(profileRow,
       [profileRow EXCEPT !.eco_coins = mutation[m].profile.eco_coins - mutation[m].amount])
  /\ mutation' = [mutation EXCEPT ![m] = [@ EXCEPT !.pc = "success"]]
  /\ UNCHANGED <<profileAtStart, detectionRows, redemptionRows, cachedProfile>>

\* useCreateWasteDetection.mutationFn: insert into waste_detections
createWasteDetection(m, earned) ==
  /\ mutation[m].pc = "idle"
  /\ \A k \in ClientMutIds : k < m => mutation[k].pc # "idle"
  /\ detectionRows' = detectionRows \cup {[id |-> m, coins |-> earned]}
  /\ mutation' = [mutation EXCEPT ![m] =
       [kind |-> "detect", pc |-> "select", amount |-> earned, profile |-> NotRead]]
  /\ UNCHANGED <<profileRow, profileAtStart, redemptionRows, cachedProfile>>

\* select eco_coins, total_items_recycled, total_co2_saved
DetectSelectProfile(m) ==
  /\ mutation[m].kind = "detect" /\ mutation[m].pc = "select"
  /\ mutation' = [mutation EXCEPT ![m] =
       [@ EXCEPT !.pc = "update", !.profile = profileRow]]
  /\ UNCHANGED <<profileRow, profileAtStart, detectionRows, redemptionRows,
                 cachedProfile>>

\* update profiles set eco_coins = newCoins, total_items_recycled = newItems,
\* both computed from the profile selected before
DetectWriteProfile(m) ==
  /\ mutation[m].kind = "detect" /\ mutation[m].pc = "update"
  /\ profileRow' = UpdateProfiles(profileRow,
       [eco_coins |-> mutation[m].profile.eco_coins + mutation[m].amount,
        total_items_recycled |-> mutation[m].profile.total_items_recycled + 1])
  /\ mutation' = [mutation EXCEPT ![m] = [@ EXCEPT !.pc = "success"]]
  /\ UNCHANGED <<profileAtStart, detectionRows, redemptionRows, cachedProfile>>

\* the refetch of ['profile', user.id] that follows invalidateQueries
RefetchProfile ==
  /\ \E m \in ClientMutIds : mutation[m].pc = "success"
  /\ cachedProfile # profileRow
  /\ cachedProfile' = profileRow
  /\ UNCHANGED <<profileRow, profileAtStart, detectionRows, redemptionRows,
                 mutation>>

ClientNext ==
  \/ \E m \in ClientMutIds, price \in RewardPrices : handleRedeem(m, price)
  \/ \E m \in ClientMutIds : RedeemSelectProfile(m)
  \/ \E m \in ClientMutIds : RedeemInsert(m)
  \/ \E m \in ClientMutIds : RedeemUpdateProfile(m)
  \/ \E m \in ClientMutIds, earned \in EarnedInputs : createWasteDetection(m, earned)
  \/ \E m \in ClientMutIds : DetectSelectProfile(m)
  \/ \E m \in ClientMutIds : DetectWriteProfile(m)
  \/ RefetchProfile

ClientSettled ==
  \A m \in ClientMutIds : mutation[m].pc \in {"idle", "success", "error"}

\* C17: once the mutations of the user have settled, however their requests
\* interleaved, eco_coins is the initial balance plus the coins of the
\* recorded detections minus the coins of the recorded redemptions, and it
\* is never negative.
C17_ClientLedger ==
  /\ profileRow.eco_coins >= 0
  /\ ClientSettled =>
       profileRow.eco_coins
         = profileAtStart.eco_coins + SumCoins(detectionRows)
             - SumCoins(redemptionRows)

(***************************************************************************)
(* check_rate_limit (production_enhancements.sql), as called by            *)
(* ApiService.checkRateLimit for one user.  Time is counted in minutes,    *)
(* the unit of date_trunc('minute', now()).  A call is a READ COMMITTED    *)
(* transaction: its DELETE waits for a transaction that is deleting the    *)
(* same rows, its SELECT sees what is committed, and its own writes are    *)
(* seen by the others when it returns.  The limits of the two callers      *)
(* (50 per 60 minutes, 20 per 1440 minutes) are scaled down, the           *)
(* redemption window staying the longer one.                               *)
(***************************************************************************)
MaxSrlCalls == 3
MaxMinute == 3
SrlCallIds == 1 .. MaxSrlCalls
SrlCallers ==
  { [p_action |-> "waste_detection", p_max_requests |-> 2, p_window_minutes |-> 1],
    [p_action |-> "reward_redemption", p_max_requests |-> 1, p_window_minutes |-> 3] }
IdleCall == [p_action |-> "none", p_max_requests |-> 0, p_window_minutes |-> 0,
             pc |-> "idle", now |-> 0, v_count |-> 0, deleted |-> {}]

VARIABLES rate_limits, minute, call, returnedTrue

srlVars == <<rate_limits, minute, call, returnedTrue>>

SrlIdle ==
  /\ rate_limits = {}
  /\ minute = 0
  /\ call = [t \in SrlCallIds |-> IdleCall]
  /\ returnedTrue = {}

SrlInit == SrlIdle

InFlight(t) == call[t].pc \in {"delete", "check"}

\* v_window_start := date_trunc('minute', now()) - p_window_minutes
v_window_start(c) == c.now - c.p_window_minutes

\* DELETE FROM rate_limits WHERE window_start < v_window_start
ExpiredRows(c) == {x \in rate_limits : x.window_start < v_window_start(c)}

RECURSIVE SumCount(_)
SumCount(rows) ==
  IF rows = {} THEN 0
  ELSE LET x == CHOOSE y \in rows : TRUE IN x.count + SumCount(rows \ {x})

\* SELECT COALESCE(SUM(count), 0) ... WHERE action = p_action
\*   AND window_start >= v_window_start
CurrentCount(c) ==
  SumCount({x \in rate_limits :
              x.action = c.p_action /\ x.window_start >= v_window_start(c)})

\* INSERT ... VALUES (p_action, 1, date_trunc('minute', now()))
\*   ON CONFLICT (user_id, action, window_start) DO UPDATE SET count = count + 1
Upsert(rows, c) ==
  LET hit == {x \in rows : x.action = c.p_action /\ x.window_start = c.now} IN
  IF hit = {}
    THEN rows \cup {[action |-> c.p_action, window_start |-> c.now, count |-> 1]}
    ELSE (rows \ hit) \cup {[x EXCEPT !.count = @ + 1] : x \in hit}

\* supabase.rpc('check_rate_limit', ...): the transaction starts
CallCheckRateLimit(t, caller) ==
  /\ call[t].pc = "idle"
  /\ \A k \in SrlCallIds : k < t => call[k].pc # "idle"
  /\ call' = [call EXCEPT ![t] =
       [p_action |-> caller.p_action, p_max_requests |-> caller.p_max_requests,
        p_window_minutes |-> caller.p_window_minutes,
        pc |-> "delete", now |-> minute, v_count |-> 0, deleted |-> {}]]
  /\ UNCHANGED <<rate_limits, minute, returnedTrue>>

\* the DELETE and the SELECT
DeleteAndCount(t) ==
  /\ call[t].pc = "delete"
  /\ \A k \in SrlCallIds \ {t} :
       InFlight(k) => call[k].deleted \cap ExpiredRows(call[t]) = {}
  /\ call' = [call EXCEPT ![t] =
       [@ EXCEPT !.pc = "check", !.deleted = ExpiredRows(call[t]),
                 !.v_count = CurrentCount(call[t])]]
  /\ UNCHANGED <<rate_limits, minute, returnedTrue>>

\* IF v_count >= p_max_requests THEN RETURN FALSE
ReturnFalse(t) ==
  /\ call[t].pc = "check"
  /\ call[t].v_count >= call[t].p_max_requests
  /\ rate_limits' = rate_limits \ call[t].deleted
  /\ call' = [call EXCEPT ![t] = [@ EXCEPT !.pc = "false", !.deleted = {}]]
  /\ UNCHANGED <<minute, returnedTrue>>

\* the INSERT ... ON CONFLICT and RETURN TRUE
IncrementAndReturnTrue(t) ==
  /\ call[t].pc = "check"
  /\ call[t].v_count < call[t].p_max_requests
  /\ rate_limits' = Upsert(rate_limits \ call[t].deleted, call[t])
  /\ call' = [call EXCEPT ![t] = [@ EXCEPT !.pc = "true", !.deleted = {}]]
  /\ returnedTrue' = returnedTrue \cup
       {[id |-> t, action |-> call[t].p_action, at |-> call[t].now]}
  /\ UNCHANGED minute

\* a minute passes between calls
MinutePasses ==
  /\ minute < MaxMinute
  /\ \A t \in SrlCallIds : ~InFlight(t)
  /\ minute' = minute + 1
  /\ UNCHANGED <<rate_limits, call, returnedTrue>>

SrlNext ==
  \/ \E t \in SrlCallIds, caller \in SrlCallers : CallCheckRateLimit(t, caller)
  \/ \E t \in SrlCallIds : DeleteAndCount(t)
  \/ \E t \in SrlCallIds : ReturnFalse(t)
  \/ \E t \in SrlCallIds : IncrementAndReturnTrue(t)
  \/ MinutePasses

\* C18: for each caller, the calls that returned TRUE within any
\* p_window_minutes consecutive minutes are at most p_max_requests.
C18_AtMostMaxRequests ==
  \A caller \in SrlCallers : \A s \in 0 .. MaxMinute :
    Cardinality({g \in returnedTrue :
                   /\ g.action = caller.p_action
                   /\ g.at \in s .. (s + caller.p_window_minutes - 1)})
      <= caller.p_max_requests

(***************************************************************************)
(* ApiService.createWasteDetection and ApiService.redeemReward (part_000): *)
(* validation, checkRateLimit, getUser, the rpc call and the handling of   *)
(* its error.  One user; calls are made one after another.  The server is  *)
(* the user's balance and the numbers of detection and redemption rows.    *)
(***************************************************************************)
MaxApiCalls == 2
ApiMethods == {"createWasteDetection", "redeemReward"}
ApiInitCoins == {0, 3}
\* input.coins_spent and input.eco_coins_earned
ApiCoins == 2

\* new Error('Rate limit exceeded. Please try again later.')
MsgRateLimitExceeded ==
  <<"R", "a", "t", "e", " ", "l", "i", "m", "i", "t", " ", "e", "x", "c",
    "e", "e", "d", "e", "d", ".", " ", "P", "l", "e", "a", "s", "e", " ",
    "t", "r", "y", " ", "a", "g", "a", "i", "n", " ", "l", "a", "t", "e",
    "r", ".">>

\* ReferenceError: the schema passed to validateData is re-exported by the
\* file but not imported into it
MsgSchemaNotDefined ==
  <<"s", "c", "h", "e", "m", "a", " ", "i", "s", " ", "n", "o", "t", " ",
    "d", "e", "f", "i", "n", "e", "d">>

SubInsufficientEcoCoins ==
  <<"I", "n", "s", "u", "f", "f", "i", "c", "i", "e", "n", "t", " ", "E",
    "c", "o", "C", "o", "i", "n", "s">>

DecimalDigits == <<"0", "1", "2", "3", "4", "5", "6", "7", "8", "9">>

RECURSIVE DecimalString(_)
DecimalString(n) ==
  IF n < 10 THEN <<DecimalDigits[n + 1]>>
  ELSE DecimalString(n \div 10) \o <<DecimalDigits[(n % 10) + 1]>>

\* RAISE EXCEPTION 'Insufficient EcoCoins. Required: %, Available: %'
RaiseInsufficient(spent, current) ==
  SubInsufficientEcoCoins
    \o <<".", " ", "R", "e", "q", "u", "i", "r", "e", "d", ":", " ">>
    \o DecimalString(spent)
    \o <<",", " ", "A", "v", "a", "i", "l", "a", "b", "l", "e", ":", " ">>
    \o DecimalString(current)

IdleApi ==
  [method |-> None, pc |-> "idle", valid |-> TRUE,
   checked |-> FALSE, allowed |-> TRUE,
   rpcInvoked |-> FALSE, rpcError |-> None, rejection |-> NoError,
   before |-> [eco_coins |-> 0, detections |-> 0, redemptions |-> 0]]

\* api       : the call of the service in progress, or the last one
\* apiServer : eco_coins of the profile, rows of waste_detections and of
\*             reward_redemptions
\* apiDone   : calls made
VARIABLES api, apiServer, apiDone

apiVars == <<api, apiServer, apiDone>>

ApiIdle ==
  /\ api = IdleApi
  /\ apiServer = [eco_coins |-> 0, detections |-> 0, redemptions |-> 0]
  /\ apiDone = 0

ApiInit ==
  /\ api = IdleApi
  /\ apiServer \in {[eco_coins |-> c, detections |-> 0, redemptions |-> 0] :
                      c \in ApiInitCoins}
  /\ apiDone = 0

\* 'An unexpected error occurred', the details of the default fallback
MsgUnexpected ==
  <<"A", "n", " ", "u", "n", "e", "x", "p", "e", "c", "t", "e", "d", " ",
    "e", "r", "r", "o", "r", " ", "o", "c", "c", "u", "r", "r", "e", "d">>

\* The AppError handleError returns: code, and in message the details (the
\* message of an Error, the string itself, or the fallback text).  The
\* context argument, errorCode included, is stored and not read.
AppErrorOf(error) ==
  [error EXCEPT !.kind = "AppError",
                !.code = handleError(error),
                !.message = IF error.kind \in {"Error", "string"}
                              THEN error.message ELSE MsgUnexpected]

\* throw handleError(error, context): the promise rejects with the AppError
ThrowHandled(error) ==
  [api EXCEPT !.pc = "rejected", !.rejection = AppErrorOf(error)]

\* apiService.createWasteDetection(input) / apiService.redeemReward(input)
ApiCall(method, valid) ==
  /\ api.pc \in {"idle", "resolved", "rejected"}
  /\ apiDone < MaxApiCalls
  /\ apiDone' = apiDone + 1
  /\ api' = [IdleApi EXCEPT !.method = method, !.pc = "validate",
                            !.valid = valid, !.before = apiServer]
  /\ UNCHANGED apiServer

\* validateData(schema, input): the schema identifier has no binding in the
\* file, so its evaluation may throw a ReferenceError (outside every try);
\* where it is bound, an invalid input is rejected through handleError
Validate(bound) ==
  /\ api.pc = "validate"
  /\ api' = IF ~bound
              THEN [api EXCEPT !.pc = "rejected",
                      !.rejection = ErrorValue("Error", MsgSchemaNotDefined, "schema")]
            ELSE IF ~api.valid
              THEN ThrowHandled(ErrorValue("Error", MsgValidationFailed, "validation"))
            ELSE [api EXCEPT !.pc = "checkRateLimit"]
  /\ UNCHANGED <<apiServer, apiDone>>

\* checkRateLimit: no user gives false, the value of check_rate_limit is
\* returned as it is, and an error of the request gives true
checkRateLimit(outcome) ==
  CASE outcome = "no_user" -> FALSE
    [] outcome = "true" -> TRUE
    [] outcome = "false" -> FALSE
    [] outcome = "error" -> TRUE

AwaitCheckRateLimit(outcome) ==
  /\ api.pc = "checkRateLimit"
  /\ api' = [api EXCEPT !.pc = "allowed", !.checked = TRUE,
                         !.allowed = checkRateLimit(outcome)]
  /\ UNCHANGED <<apiServer, apiDone>>

\* fault: the result of checkRateLimit is not looked at
NotAllowedIgnored(allowed) == FALSE

\* if (!allowed)
NotAllowed(allowed) == ~allowed

\* if (!allowed) throw handleError(new Error('Rate limit exceeded...'));
\* then getUser: if (!user) throw handleError(new Error('User not authenticated'))
CheckAllowedAndUser(user) ==
  /\ api.pc = "allowed"
  /\ api' = IF NotAllowed(api.allowed)
              THEN ThrowHandled(ErrorValue("Error", MsgRateLimitExceeded, "rate_limit"))
            ELSE IF ~user
              THEN ThrowHandled(ErrorValue("Error", MsgUserNotAuthenticated, "auth"))
            ELSE [api EXCEPT !.pc = "rpc"]
  /\ UNCHANGED <<apiServer, apiDone>>

\* catch (error) { throw handleError(error, ...) } around the rpc call
CatchAndThrow(a, error) ==
  [a EXCEPT !.pc = "rejected", !.rejection = AppErrorOf(error)]

\* supabase.rpc('create_waste_detection_atomic', ...)
RpcCreateWasteDetection(reached, errorKind) ==
  /\ api.pc = "rpc" /\ api.method = "createWasteDetection"
  /\ IF ~reached
       THEN /\ api' = CatchAndThrow([api EXCEPT !.rpcError = "network"],
                        ErrorValue(errorKind, MsgFailedToFetch, "network"))
            /\ UNCHANGED apiServer
       ELSE /\ api' = [api EXCEPT !.pc = "resolved", !.rpcInvoked = TRUE]
            /\ apiServer' = [apiServer EXCEPT !.eco_coins = @ + ApiCoins,
                                              !.detections = @ + 1]
  /\ UNCHANGED apiDone

\* supabase.rpc('redeem_reward_atomic', ...); an error whose message
\* includes 'Insufficient EcoCoins' is thrown through handleError inside the
\* try, every other error is thrown as it is; the catch handles both
RpcRedeemReward(reached, errorKind) ==
  /\ api.pc = "rpc" /\ api.method = "redeemReward"
  /\ IF ~reached
       THEN /\ api' = CatchAndThrow([api EXCEPT !.rpcError = "network"],
                        ErrorValue(errorKind, MsgFailedToFetch, "network"))
            /\ UNCHANGED apiServer
     ELSE IF InsufficientBalance(apiServer.eco_coins, ApiCoins)
       THEN LET message == RaiseInsufficient(ApiCoins, apiServer.eco_coins)
                invoked == [api EXCEPT !.rpcInvoked = TRUE,
                                       !.rpcError = "insufficient"]
                error == ErrorValue(errorKind, message, "insufficient")
                newError == ErrorValue("Error", error.message, "insufficient")
            IN /\ api' = IF Includes(error.message, SubInsufficientEcoCoins)
                           THEN CatchAndThrow(invoked, AppErrorOf(newError))
                           ELSE CatchAndThrow(invoked, error)
               /\ UNCHANGED apiServer
     ELSE /\ api' = [api EXCEPT !.pc = "resolved", !.rpcInvoked = TRUE]
          /\ apiServer' = [apiServer EXCEPT
                             !.eco_coins = Deduct(@, ApiCoins),
                             !.redemptions = @ + 1]
  /\ UNCHANGED apiDone

ApiNext ==
  \/ \E method \in ApiMethods, valid \in BOOLEAN : ApiCall(method, valid)
  \/ \E bound \in BOOLEAN : Validate(bound)
  \/ \E outcome \in {"no_user", "true", "false", "error"} : AwaitCheckRateLimit(outcome)
  \/ \E user \in BOOLEAN : CheckAllowedAndUser(user)
  \/ \E reached \in BOOLEAN, k \in {"Error", "object"} : RpcCreateWasteDetection(reached, k)
  \/ \E reached \in BOOLEAN, k \in {"Error", "object"} : RpcRedeemReward(reached, k)

vars == <<dbVars, cacheVars, retryVars, limiterVars, errVars, assistantVars, storeVars, co2Vars, clientVars, srlVars, apiVars>>

DBIdle ==
  /\ profiles = [u \in AuthUsers |-> NoProfile]
  /\ initial = profiles
  /\ waste_detections = {}
  /\ reward_redemptions = {}
  /\ audit_logs = {}
  /\ rowLock = [u \in AuthUsers |-> NoTxn]
  /\ txn = [t \in TxnIds |-> IdleTxn]
  /\ nextTxn = 1

\* The database procedures.
Init == DBInit /\ CacheInit /\ RetryInit /\ LimiterIdle /\ ErrIdle /\ AssistantInit /\ StoreInit /\ Co2Idle /\ ClientIdle /\ SrlIdle /\ ApiIdle
Next == DBNext /\ UNCHANGED <<cacheVars, retryVars, limiterVars, errVars, assistantVars, storeVars, co2Vars, clientVars, srlVars, apiVars>>
Spec == Init /\ [][Next]_vars

\* The query cache and the optimistic mutations.
InitCache == DBIdle /\ CacheInit /\ RetryInit /\ LimiterIdle /\ ErrIdle /\ AssistantInit /\ StoreInit /\ Co2Idle /\ ClientIdle /\ SrlIdle /\ ApiIdle
NextCache == CacheNext /\ UNCHANGED <<dbVars, retryVars, limiterVars, errVars, assistantVars, storeVars, co2Vars, clientVars, srlVars, apiVars>>
SpecCache == InitCache /\ [][NextCache]_vars

\* The retry and timeout wrappers.
InitRetry == DBIdle /\ CacheInit /\ RetryInit /\ LimiterIdle /\ ErrIdle /\ AssistantInit /\ StoreInit /\ Co2Idle /\ ClientIdle /\ SrlIdle /\ ApiIdle
NextRetry == RetryNext /\ UNCHANGED <<dbVars, cacheVars, limiterVars, errVars, assistantVars, storeVars, co2Vars, clientVars, srlVars, apiVars>>
SpecRetry == InitRetry /\ [][NextRetry]_vars
\* the event loop runs every timer and continuation that is due, and every
\* invocation of the operation settles
SpecRetryLive == SpecRetry /\ WF_vars(NextRetry)

\* The client-side rate limiter.
InitLimiter == DBIdle /\ CacheInit /\ RetryInit /\ LimiterInit /\ ErrIdle /\ AssistantInit /\ StoreInit /\ Co2Idle /\ ClientIdle /\ SrlIdle /\ ApiIdle
NextLimiter == LimiterNext /\ UNCHANGED <<dbVars, cacheVars, retryVars, errVars, assistantVars, storeVars, co2Vars, clientVars, srlVars, apiVars>>
SpecLimiter == InitLimiter /\ [][NextLimiter]_vars

\* The error classifier.
InitErr == DBIdle /\ CacheInit /\ RetryInit /\ LimiterIdle /\ ErrInit /\ AssistantInit /\ StoreInit /\ Co2Idle /\ ClientIdle /\ SrlIdle /\ ApiIdle
NextErr == ErrNext /\ UNCHANGED <<dbVars, cacheVars, retryVars, limiterVars, assistantVars, storeVars, co2Vars, clientVars, srlVars, apiVars>>
SpecErr == InitErr /\ [][NextErr]_vars

\* The assistant page.
InitAssistant == DBIdle /\ CacheInit /\ RetryInit /\ LimiterIdle /\ ErrIdle /\ AssistantInit /\ StoreInit /\ Co2Idle /\ ClientIdle /\ SrlIdle /\ ApiIdle
NextAssistant == AssistantNext /\ UNCHANGED <<dbVars, cacheVars, retryVars, limiterVars, errVars, storeVars, co2Vars, clientVars, srlVars, apiVars>>
SpecAssistant == InitAssistant /\ [][NextAssistant]_vars

\* The Store page.
InitStore == DBIdle /\ CacheInit /\ RetryInit /\ LimiterIdle /\ ErrIdle /\ AssistantInit /\ StoreInit /\ Co2Idle /\ ClientIdle /\ SrlIdle /\ ApiIdle
NextStore == StoreNext /\ UNCHANGED <<dbVars, cacheVars, retryVars, limiterVars, errVars, assistantVars, co2Vars, clientVars, srlVars, apiVars>>
SpecStore == InitStore /\ [][NextStore]_vars

\* The CO2 estimate.
InitCo2 == DBIdle /\ CacheInit /\ RetryInit /\ LimiterIdle /\ ErrIdle /\ AssistantInit /\ StoreInit /\ Co2Init /\ ClientIdle /\ SrlIdle /\ ApiIdle
NextCo2 == Co2Next /\ UNCHANGED <<dbVars, cacheVars, retryVars, limiterVars, errVars, assistantVars, storeVars, clientVars, srlVars, apiVars>>
SpecCo2 == InitCo2 /\ [][NextCo2]_vars

\* The hooks that write the tables from the browser.
InitClient == DBIdle /\ CacheInit /\ RetryInit /\ LimiterIdle /\ ErrIdle /\ AssistantInit /\ StoreInit /\ Co2Idle /\ ClientInit /\ SrlIdle /\ ApiIdle
NextClient == ClientNext /\ UNCHANGED <<dbVars, cacheVars, retryVars, limiterVars, errVars, assistantVars, storeVars, co2Vars, srlVars, apiVars>>
SpecClient == InitClient /\ [][NextClient]_vars

\* check_rate_limit.
InitServerLimit == DBIdle /\ CacheInit /\ RetryInit /\ LimiterIdle /\ ErrIdle /\ AssistantInit /\ StoreInit /\ Co2Idle /\ ClientIdle /\ SrlInit /\ ApiIdle
NextServerLimit == SrlNext /\ UNCHANGED <<dbVars, cacheVars, retryVars, limiterVars, errVars, assistantVars, storeVars, co2Vars, clientVars, apiVars>>
SpecServerLimit == InitServerLimit /\ [][NextServerLimit]_vars

\* ApiService.
InitApi == DBIdle /\ CacheInit /\ RetryInit /\ LimiterIdle /\ ErrIdle /\ AssistantInit /\ StoreInit /\ Co2Idle /\ ClientIdle /\ SrlIdle /\ ApiInit
NextApi == ApiNext /\ UNCHANGED <<dbVars, cacheVars, retryVars, limiterVars, errVars, assistantVars, storeVars, co2Vars, clientVars, srlVars>>
SpecApi == InitApi /\ [][NextApi]_vars

====
